---- MODULE Spec2Model ----
(***************************************************************************)
(* Model of the adaptive assessment engine of PersonalExam:                *)
(*   - BayesianKnowledgeTracing (utils/bkt_algorithm.py): the mastery      *)
(*     tracker and its JSON store,                                         *)
(*   - EducationSystemCore (system_core.py): the adaptive selector and the *)
(*     session operations start_assessment / submit_answer / next_question *)
(*     / generate_report.                                                  *)
(* Probabilities are Python floats in the source; here they are fixed      *)
(* point integers in units of 1/Scale (0.3 is 300), divisions round down.  *)
(***************************************************************************)
EXTENDS Integers, Sequences, FiniteSets, TLC

\* ------------------------------------------------------------------ bounds
MaxPool == 3
MaxId == 2
MaxAnswers == 2
MaxSessionAnswers == 3
MaxRequest == 3
MaxRestarts == 1
MaxWindowAnswers == 11
MaxSessions == 1

\* --------------------------------------------------------------- constants
Scale == 1000
P_INIT == 300
P_LEARN == 200
P_GUESS == 300
P_SLIP == 100
P_FORGET == 50
MASTERY_MIN == 10
MASTERY_MAX == 990
EASY_BELOW == 300
MEDIUM_BELOW == 700
RECENT_WINDOW == 10
SLIDER_MIN == 3

None == 0
Difficulties == {"easy", "medium", "hard", "other"}
QuestionIds == 1..MaxId
Questions == [id : QuestionIds, diff : Difficulties]

Max(a, b) == IF a >= b THEN a ELSE b
Min(a, b) == IF a <= b THEN a ELSE b

RECURSIVE SeqsUpTo(_, _)
SeqsUpTo(S, n) ==
  IF n = 0 THEN {<<>>}
  ELSE LET shorter == SeqsUpTo(S, n - 1)
       IN shorter \cup {Append(s, x) : s \in {t \in shorter : Len(t) = n - 1}, x \in S}

\* ---------------------------------------------------------------- selector
\* EducationSystemCore._select_adaptive_question.  A question is named by its
\* position in available_questions; the result is the set of values the call
\* may return (random.choice picks any member), {None} when it returns None.
\* The bands with the thresholds on the wrong side: 0.3 still easy, 0.7 still medium.
TargetDifficultyInclusive(current_mastery) ==
  IF current_mastery <= EASY_BELOW THEN "easy"
  ELSE IF current_mastery <= MEDIUM_BELOW THEN "medium"
  ELSE "hard"

TargetDifficulty(current_mastery) ==
  IF current_mastery < EASY_BELOW THEN "easy"
  ELSE IF current_mastery < MEDIUM_BELOW THEN "medium"
  ELSE "hard"

\* The fallback lists with hard tried before easy for a medium target.
FallbackHardFirst(current_mastery) ==
  IF current_mastery < EASY_BELOW THEN <<"medium">>
  ELSE IF current_mastery < MEDIUM_BELOW THEN <<"hard", "easy">>
  ELSE <<"medium">>

FallbackDifficulties(current_mastery) ==
  IF current_mastery < EASY_BELOW THEN <<"medium">>
  ELSE IF current_mastery < MEDIUM_BELOW THEN <<"easy", "hard">>
  ELSE <<"medium">>

Candidates(available_questions, used_questions) ==
  {i \in DOMAIN available_questions : available_questions[i].id \notin used_questions}

DifficultyBucket(available_questions, candidates, d) ==
  {i \in candidates : available_questions[i].diff = d}

RECURSIVE FirstFallback(_, _, _, _)
FirstFallback(available_questions, candidates, fallback_difficulties, n) ==
  IF n > Len(fallback_difficulties) THEN candidates
  ELSE LET fallback_candidates ==
             DifficultyBucket(available_questions, candidates, fallback_difficulties[n])
       IN IF fallback_candidates # {} THEN fallback_candidates
          ELSE FirstFallback(available_questions, candidates, fallback_difficulties, n + 1)

NoFinalFallback(current_mastery, available_questions, used_questions) ==
  LET candidates == Candidates(available_questions, used_questions)
      target_candidates ==
        DifficultyBucket(available_questions, candidates, TargetDifficulty(current_mastery))
      fb == FallbackDifficulties(current_mastery)
      fallback_candidates == DifficultyBucket(available_questions, candidates, fb[1])
  IN IF candidates = {} THEN {None}
     ELSE IF target_candidates # {} THEN target_candidates
     ELSE IF fallback_candidates # {} THEN fallback_candidates
     ELSE {None}

SelectAdaptiveQuestion(current_mastery, available_questions, used_questions) ==
  LET candidates == Candidates(available_questions, used_questions)
      target_candidates ==
        DifficultyBucket(available_questions, candidates, TargetDifficulty(current_mastery))
  IN IF candidates = {} THEN {None}
     ELSE IF target_candidates # {} THEN target_candidates
     ELSE FirstFallback(available_questions, candidates,
                        FallbackDifficulties(current_mastery), 1)

\* ----------------------------------------------------------- BKT tracker
Students == {"s1"}
KnowledgePoints == {"kp1", "kp2"}

\* BKTParameters(): the dataclass defaults.
default_params ==
  [p_init |-> P_INIT, p_learn |-> P_LEARN, p_guess |-> P_GUESS,
   p_slip |-> P_SLIP, p_forget |-> P_FORGET]

\* self.student_states is a dict of dicts; it is modelled as the sequence of
\* its entries [sid, kp, st] in iteration order (students in order of first
\* insertion, each student's knowledge points in order of insertion).
HasState(states, student_id, knowledge_point) ==
  \E i \in DOMAIN states : states[i].sid = student_id /\ states[i].kp = knowledge_point

IndexOf(states, student_id, knowledge_point) ==
  CHOOSE i \in DOMAIN states : states[i].sid = student_id /\ states[i].kp = knowledge_point

StateOf(states, student_id, knowledge_point) ==
  states[IndexOf(states, student_id, knowledge_point)].st

\* self.student_states[student_id][knowledge_point] = state
PutState(states, student_id, knowledge_point, state) ==
  LET entry == [sid |-> student_id, kp |-> knowledge_point, st |-> state]
      own == {i \in DOMAIN states : states[i].sid = student_id}
      last == IF own = {} THEN Len(states)
              ELSE CHOOSE i \in own : \A j \in own : j <= i
  IN IF HasState(states, student_id, knowledge_point)
     THEN [states EXCEPT ![IndexOf(states, student_id, knowledge_point)] = entry]
     ELSE SubSeq(states, 1, last) \o <<entry>> \o SubSeq(states, last + 1, Len(states))

RECURSIVE AllHistory(_, _, _)
AllHistory(states, student_id, i) ==
  IF i > Len(states) THEN <<>>
  ELSE (IF states[i].sid = student_id THEN states[i].st.answer_history ELSE <<>>)
       \o AllHistory(states, student_id, i + 1)

CountCorrect(history) ==
  Cardinality({i \in DOMAIN history : history[i].is_correct})

\* _get_personalized_params as it would be if it ignored the history.
AlwaysDefaultParams(states, student_id) == default_params

\* BayesianKnowledgeTracing._get_personalized_params.  accuracy and
\* learning_speed are compared by cross-multiplication; the sum of the
\* consecutive previous_mastery differences is last minus first.
GetPersonalizedParams(states, student_id) ==
  LET all_history == AllHistory(states, student_id, 1)
      total == Len(all_history)
      correct == CountCorrect(all_history)
      changes == all_history[total].previous_mastery - all_history[1].previous_mastery
      p_init == IF correct * 10 > 8 * total THEN 500
                ELSE IF correct * 10 > 6 * total THEN 400
                ELSE 200
      p_learn == IF changes * 10 > Scale * (total - 1) THEN 300
                 ELSE IF changes * 20 > Scale * (total - 1) THEN 200
                 ELSE 150
  IN IF \A i \in DOMAIN states : states[i].sid # student_id THEN default_params
     ELSE IF total < 10 THEN default_params
     ELSE [default_params EXCEPT !.p_init = p_init, !.p_learn = p_learn]

\* BayesianKnowledgeTracing._save_states.  io is the outcome of the file
\* system: "ok"; "open_fails" (mkdir or open raises, the file is untouched);
\* "dump_fails" (json.dump raises after open(..., 'w') truncated the file).
\* Every exception is caught and logged, so nothing is raised to the caller.
StateDict(state) ==
  [student_id |-> state.student_id,
   knowledge_point |-> state.knowledge_point,
   mastery_prob |-> state.mastery_prob,
   answer_history |-> state.answer_history,
   recent_performance |-> state.recent_performance,
   params |-> state.params]

Serialize(states) ==
  [i \in DOMAIN states |->
     [sid |-> states[i].sid, kp |-> states[i].kp, dict |-> StateDict(states[i].st)]]

IoOutcomes == {"ok", "open_fails", "dump_fails"}

SaveStates(states, disk, io) ==
  [storage |-> IF io = "ok" THEN [truncated |-> FALSE, data |-> Serialize(states)]
               ELSE IF io = "open_fails" THEN disk
               ELSE [truncated |-> TRUE, data |-> <<>>],
   raised |-> FALSE]

\* BayesianKnowledgeTracing._load_states.  A state_dict that lacks one of the
\* keys read with state_dict[...] raises KeyError; json.load raises on a
\* truncated file.  Either way the single except clause resets the whole map.
RequiredKeys == {"student_id", "knowledge_point", "mastery_prob",
                 "answer_history", "recent_performance"}

WellFormed(state_dict) == RequiredKeys \subseteq DOMAIN state_dict

StateFromDict(state_dict) ==
  [student_id |-> state_dict.student_id,
   knowledge_point |-> state_dict.knowledge_point,
   mastery_prob |-> state_dict.mastery_prob,
   answer_history |-> state_dict.answer_history,
   recent_performance |-> state_dict.recent_performance,
   params |-> IF "params" \in DOMAIN state_dict THEN state_dict.params
              ELSE default_params]

RECURSIVE LoadEntries(_, _, _)
LoadEntries(data, i, acc) ==
  IF i > Len(data) THEN acc
  ELSE LoadEntries(data, i + 1,
                   PutState(acc, data[i].sid, data[i].kp, StateFromDict(data[i].dict)))

LoadStates(disk) ==
  IF disk.truncated THEN <<>>
  ELSE IF \E i \in DOMAIN disk.data : ~WellFormed(disk.data[i].dict) THEN <<>>
  ELSE LoadEntries(disk.data, 1, <<>>)

\* BayesianKnowledgeTracing.initialize_student (params is None).
\* Returns the new map and the new file content.
InitializeStudent(states, disk, student_id, knowledge_point, io) ==
  LET params == GetPersonalizedParams(states, student_id)
      state == [student_id |-> student_id,
                knowledge_point |-> knowledge_point,
                mastery_prob |-> params.p_init,
                answer_history |-> <<>>,
                recent_performance |-> <<>>,
                params |-> params]
      states2 == PutState(states, student_id, knowledge_point, state)
  IN [states |-> states2, storage |-> SaveStates(states2, disk, io).storage]

\* get_student_state as it would be without the lookup of line 262.
GetStudentStateAlwaysInit(states, disk, student_id, knowledge_point, io) ==
  InitializeStudent(states, disk, student_id, knowledge_point, io)

\* BayesianKnowledgeTracing.get_student_state.
GetStudentState(states, disk, student_id, knowledge_point, io) ==
  IF ~HasState(states, student_id, knowledge_point)
  THEN InitializeStudent(states, disk, student_id, knowledge_point, io)
  ELSE [states |-> states, storage |-> disk]

\* BayesianKnowledgeTracing.update_mastery_probability: the value written to
\* state.mastery_prob.
NoClamp(p) == p

Clamp(p) == Max(MASTERY_MIN, Min(MASTERY_MAX, p))

\* The posterior as it would be without the Bayesian step.
PosteriorPrior(p_mastery, params, is_correct) == p_mastery

Posterior(p_mastery, params, is_correct) ==
  LET numerator == IF is_correct THEN p_mastery * (Scale - params.p_slip)
                   ELSE p_mastery * params.p_slip
      denominator == IF is_correct
                     THEN numerator + (Scale - p_mastery) * params.p_guess
                     ELSE numerator + (Scale - p_mastery) * (Scale - params.p_guess)
  IN IF denominator > 0 THEN (numerator * Scale) \div denominator ELSE p_mastery

UpdateMasteryProbability(p_mastery, params, is_correct) ==
  LET given == Posterior(p_mastery, params, is_correct)
      p_mastery_updated ==
        IF is_correct THEN given + ((Scale - given) * params.p_learn) \div Scale
        ELSE (given * (Scale - params.p_forget)) \div Scale
  IN Clamp(p_mastery_updated)

\* BayesianKnowledgeTracing._calculate_recent_accuracy, in units of 1/Scale.
CalculateRecentAccuracy(state) ==
  IF state.recent_performance = <<>> THEN 0
  ELSE (CountCorrect([i \in DOMAIN state.recent_performance |->
                        [is_correct |-> state.recent_performance[i]]]) * Scale)
       \div Len(state.recent_performance)

\* BayesianKnowledgeTracing.get_recommended_difficulty on an existing state:
\* combined_score = 0.7 * mastery + 0.3 * recent_accuracy, here times 10.
GetRecommendedDifficulty(state) ==
  LET combined_score10 == 7 * state.mastery_prob + 3 * CalculateRecentAccuracy(state)
  IN IF combined_score10 < 10 * EASY_BELOW THEN "easy"
     ELSE IF combined_score10 < 10 * MEDIUM_BELOW THEN "medium"
     ELSE "hard"

\* The body of record_answer without the pop(0) of lines 340-341.
RecordedStateNoTrim(state, question, is_correct) ==
  LET answer_record == [question |-> question,
                        is_correct |-> is_correct,
                        difficulty |-> question.diff,
                        previous_mastery |-> state.mastery_prob]
      new_mastery == UpdateMasteryProbability(state.mastery_prob, state.params, is_correct)
      appended == Append(state.recent_performance, is_correct)
      recent == appended
  IN [state EXCEPT !.mastery_prob = new_mastery,
                   !.recent_performance = recent,
                   !.answer_history = Append(state.answer_history, answer_record)]

\* The body of record_answer after get_student_state: the mutated state.
RecordedState(state, question, is_correct) ==
  LET answer_record == [question |-> question,
                        is_correct |-> is_correct,
                        difficulty |-> question.diff,
                        previous_mastery |-> state.mastery_prob]
      new_mastery == UpdateMasteryProbability(state.mastery_prob, state.params, is_correct)
      appended == Append(state.recent_performance, is_correct)
      recent == IF Len(appended) > RECENT_WINDOW THEN Tail(appended) ELSE appended
  IN [state EXCEPT !.mastery_prob = new_mastery,
                   !.recent_performance = recent,
                   !.answer_history = Append(state.answer_history, answer_record)]

\* record_answer as it would be if a failed flush undid the update.
RecordAnswerRollback(states, disk, student_id, knowledge_point, question, is_correct, io1, io2) ==
  LET got == GetStudentState(states, disk, student_id, knowledge_point, io1)
      state == StateOf(got.states, student_id, knowledge_point)
      state2 == RecordedState(state, question, is_correct)
      states2 == PutState(got.states, student_id, knowledge_point, state2)
      saved == SaveStates(states2, got.storage, io2)
  IN [states |-> IF io2 = "ok" THEN states2 ELSE got.states,
      storage |-> saved.storage,
      raised |-> saved.raised,
      result |-> [student_id |-> student_id,
                  knowledge_point |-> knowledge_point,
                  current_mastery |-> state2.mastery_prob,
                  previous_mastery |-> state.mastery_prob,
                  mastery_change |-> state2.mastery_prob - state.mastery_prob,
                  total_answers |-> Len(state2.answer_history),
                  recent_accuracy |-> CalculateRecentAccuracy(state2),
                  recommended_difficulty |-> GetRecommendedDifficulty(state2)]]

\* record_answer as it would be if the file were written before the update.
RecordAnswerSavesBeforeUpdate(states, disk, student_id, knowledge_point, question, is_correct, io1, io2) ==
  LET got == GetStudentState(states, disk, student_id, knowledge_point, io1)
      state == StateOf(got.states, student_id, knowledge_point)
      state2 == RecordedState(state, question, is_correct)
      states2 == PutState(got.states, student_id, knowledge_point, state2)
      saved == SaveStates(got.states, got.storage, io2)
  IN [states |-> states2,
      storage |-> saved.storage,
      raised |-> saved.raised,
      result |-> [student_id |-> student_id,
                  knowledge_point |-> knowledge_point,
                  current_mastery |-> state2.mastery_prob,
                  previous_mastery |-> state.mastery_prob,
                  mastery_change |-> state2.mastery_prob - state.mastery_prob,
                  total_answers |-> Len(state2.answer_history),
                  recent_accuracy |-> CalculateRecentAccuracy(state2),
                  recommended_difficulty |-> GetRecommendedDifficulty(state2)]]

\* BayesianKnowledgeTracing.record_answer.  io1 is the outcome of the flush
\* of initialize_student (when the pair has no state yet), io2 of the flush
\* after the update.  Returns the new map, the new file content and the
\* result dict; raised tells whether an exception reaches the caller.
RecordAnswer(states, disk, student_id, knowledge_point, question, is_correct, io1, io2) ==
  LET got == GetStudentState(states, disk, student_id, knowledge_point, io1)
      state == StateOf(got.states, student_id, knowledge_point)
      state2 == RecordedState(state, question, is_correct)
      states2 == PutState(got.states, student_id, knowledge_point, state2)
      saved == SaveStates(states2, got.storage, io2)
  IN [states |-> states2,
      storage |-> saved.storage,
      raised |-> saved.raised,
      result |-> [student_id |-> student_id,
                  knowledge_point |-> knowledge_point,
                  current_mastery |-> state2.mastery_prob,
                  previous_mastery |-> state.mastery_prob,
                  mastery_change |-> state2.mastery_prob - state.mastery_prob,
                  total_answers |-> Len(state2.answer_history),
                  recent_accuracy |-> CalculateRecentAccuracy(state2),
                  recommended_difficulty |-> GetRecommendedDifficulty(state2)]]

VARIABLES sel_pc, sel_mastery, sel_pool, sel_used, sel_result,
          student_states, storage, bkt_return, restarts,
          question_db, session, ui, threads, conc_start,
          kg_questions, kg_graph, kg_cache, kg_builds,
          db_file, state_stamps, storage_stamps, op

selVars == <<sel_pc, sel_mastery, sel_pool, sel_used, sel_result>>
trackerVars == <<student_states, storage, bkt_return, restarts>>
sessionVars == <<question_db, session, ui>>
concVars == <<threads, conc_start>>
kgVars == <<kg_questions, kg_graph, kg_cache, kg_builds>>
storeVars == <<db_file, state_stamps, storage_stamps>>
vars == <<selVars, trackerVars, sessionVars, concVars, kgVars, storeVars, op>>

\* Mastery values handed to the selector: both ends of each band.
MasteryLevels == {MASTERY_MIN, EASY_BELOW - 1, EASY_BELOW, MEDIUM_BELOW - 1,
                  MEDIUM_BELOW, MASTERY_MAX}

SelIdle ==
  /\ sel_pc = "idle"
  /\ sel_mastery = P_INIT
  /\ sel_pool = <<>>
  /\ sel_used = {}
  /\ sel_result = None

NoOp == [name |-> "none"]
NoReturn == [raised |-> FALSE, result |-> [current_mastery |-> 0]]
EmptyStorage == [truncated |-> FALSE, data |-> <<>>]

TrackerIdle ==
  /\ student_states = <<>>
  /\ storage = EmptyStorage
  /\ bkt_return = NoReturn
  /\ restarts = 0

NoSession == [knowledge_point |-> "none"]

\* The assessment tab as the page is built: the quiz and report areas and the
\* next button are hidden, the submit button is visible, session_state is None.
\* sessions counts the clicks on the start button, num is the slider value of
\* the last one and report_of the click whose session the shown report is of.
UiInitial ==
  [quiz_area |-> FALSE, submit_btn |-> TRUE, next_btn |-> FALSE, feedback |-> FALSE,
   report_area |-> FALSE, report |-> "none", sessions |-> 0, num |-> 0, report_of |-> 0]

SessionIdle ==
  /\ question_db = <<>>
  /\ session = NoSession
  /\ ui = UiInitial

Threads == {1, 2}
IdleThread == [pc |-> "idle", is_correct |-> FALSE, previous_mastery |-> 0, p_mastery |-> 0]

ConcIdle ==
  /\ threads = [t \in Threads |-> IdleThread]
  /\ conc_start = <<>>

\* The builder after __init__: an empty DiGraph, and no cache file on disk.
EmptyGraph == [class |-> "DiGraph", nodes |-> <<>>, edges |-> <<>>]
NoCache == [kind |-> "absent", class |-> "", stream |-> <<>>]

KgIdle ==
  /\ kg_questions = <<>>
  /\ kg_graph = EmptyGraph
  /\ kg_cache = NoCache
  /\ kg_builds = 0

\* The question store's file as load_database leaves it when there was none,
\* and no timestamp of a mastery state in memory or in the store file.
EmptyDbFile == [truncated |-> FALSE, data |-> <<>>]

StoreIdle ==
  /\ db_file = EmptyDbFile
  /\ state_stamps = <<>>
  /\ storage_stamps = <<>>

SelInit ==
  /\ TrackerIdle
  /\ SessionIdle
  /\ ConcIdle
  /\ KgIdle
  /\ StoreIdle
  /\ op = NoOp
  /\ sel_pc = "call"
  /\ sel_mastery \in MasteryLevels
  /\ sel_pool \in SeqsUpTo(Questions, MaxPool)
  /\ sel_used \in SUBSET QuestionIds
  /\ sel_result = None

SelectCall ==
  /\ sel_pc = "call"
  /\ sel_result' \in SelectAdaptiveQuestion(sel_mastery, sel_pool, sel_used)
  /\ sel_pc' = "returned"
  /\ UNCHANGED <<sel_mastery, sel_pool, sel_used, trackerVars, sessionVars, concVars, kgVars, storeVars, op>>

SelNext == SelectCall
SpecSelect == SelInit /\ [][SelNext]_vars

\* C1: the selector returns None exactly when every item of the pool has its
\* identifier in the used set; otherwise it returns an unused item of the pool.
C1_NoneIffExhausted ==
  sel_pc = "returned" =>
    /\ (sel_result = None) <=> (\A i \in DOMAIN sel_pool : sel_pool[i].id \in sel_used)
    /\ sel_result # None =>
         /\ sel_result \in DOMAIN sel_pool
         /\ sel_pool[sel_result].id \notin sel_used

\* An unused item of an unlabelled difficulty is returned by the final pick.
C1_Witness ==
  /\ sel_pc = "returned"
  /\ sel_result # None
  /\ \A i \in Candidates(sel_pool, sel_used) : sel_pool[i].diff = "other"
  /\ \E i \in DOMAIN sel_pool : sel_pool[i].id \in sel_used

UnusedOf(d) == DifficultyBucket(sel_pool, Candidates(sel_pool, sel_used), d)

\* C12: with mastery below 0.3, no unused easy item and no unused medium item
\* but an unused hard item, the selector returns a hard item.
C12_HardIsSecondaryFallback ==
  (/\ sel_pc = "returned"
   /\ sel_mastery < EASY_BELOW
   /\ UnusedOf("easy") = {}
   /\ UnusedOf("medium") = {}
   /\ UnusedOf("hard") # {}) =>
    /\ sel_result # None
    /\ sel_pool[sel_result].diff = "hard"

\* C13: with mastery in [0.3, 0.7) and no unused medium item the selector
\* returns an easy item whenever an unused easy item exists, and a hard item
\* only when none does.
C13_MediumFallsBackToEasyFirst ==
  (/\ sel_pc = "returned"
   /\ sel_mastery >= EASY_BELOW
   /\ sel_mastery < MEDIUM_BELOW
   /\ UnusedOf("medium") = {}
   /\ sel_result # None) =>
    /\ UnusedOf("easy") # {} => sel_pool[sel_result].diff = "easy"
    /\ sel_pool[sel_result].diff = "hard" => UnusedOf("easy") = {}

\* The only medium item is used, an easy and a hard item are left: easy wins.
C13_Witness ==
  /\ sel_pc = "returned"
  /\ sel_mastery = EASY_BELOW
  /\ UnusedOf("medium") = {}
  /\ \E i \in DOMAIN sel_pool : sel_pool[i].diff = "medium"
  /\ UnusedOf("easy") # {}
  /\ UnusedOf("hard") # {}
  /\ sel_result \in UnusedOf("easy")

\* C14: when the pool holds an unused item of the difficulty the mastery
\* implies (easy below 0.3, medium from 0.3 to below 0.7, hard from 0.7) the
\* selector returns an unused item of that difficulty.
C14_TargetDifficultyReturned ==
  sel_pc = "returned" =>
    /\ (sel_mastery < EASY_BELOW /\ UnusedOf("easy") # {})
         => sel_result \in UnusedOf("easy")
    /\ (sel_mastery >= EASY_BELOW /\ sel_mastery < MEDIUM_BELOW /\ UnusedOf("medium") # {})
         => sel_result \in UnusedOf("medium")
    /\ (sel_mastery >= MEDIUM_BELOW /\ UnusedOf("hard") # {})
         => sel_result \in UnusedOf("hard")

\* Mastery exactly 0.7 with unused medium and hard items: a hard item comes back.
C14_Witness ==
  /\ sel_pc = "returned"
  /\ sel_mastery = MEDIUM_BELOW
  /\ UnusedOf("medium") # {}
  /\ UnusedOf("hard") # {}
  /\ sel_used # {}
  /\ sel_result \in UnusedOf("hard")
\* ------------------------------------------------------ tracker, on its own
\* The tracker driven directly: any caller may create states and record
\* answers, the process may be restarted (a new BayesianKnowledgeTracing loads
\* the file), and the file may be damaged between runs.
TrackerQuestions == {[id |-> 1, diff |-> "easy"]}

TotalAnswers(states) ==
  IF states = <<>> THEN 0
  ELSE LET n[i \in 0..Len(states)] ==
             IF i = 0 THEN 0 ELSE n[i - 1] + Len(states[i].st.answer_history)
       IN n[Len(states)]

TrkGetStudentState(student_id, knowledge_point, io) ==
  LET got == GetStudentState(student_states, storage, student_id, knowledge_point, io)
  IN /\ HasState(student_states, student_id, knowledge_point) => io = "ok"
     /\ student_states' = got.states
     /\ storage' = got.storage
     /\ bkt_return' = NoReturn
     /\ op' = [name |-> "get_student_state", sid |-> student_id,
               kp |-> knowledge_point, io |-> io,
               created |-> ~HasState(student_states, student_id, knowledge_point),
               state |-> StateOf(got.states, student_id, knowledge_point)]
     /\ UNCHANGED <<restarts, selVars, sessionVars, concVars, kgVars, storeVars>>

TrkRecordAnswer(student_id, knowledge_point, question, is_correct, io1, io2) ==
  LET r == RecordAnswer(student_states, storage, student_id, knowledge_point,
                        question, is_correct, io1, io2)
  IN /\ TotalAnswers(student_states) < MaxAnswers
     /\ HasState(student_states, student_id, knowledge_point) => io1 = "ok"
     /\ student_states' = r.states
     /\ storage' = r.storage
     /\ bkt_return' = [raised |-> r.raised, result |-> r.result]
     /\ op' = [name |-> "record_answer", sid |-> student_id, kp |-> knowledge_point,
               is_correct |-> is_correct, io |-> io2]
     /\ UNCHANGED <<restarts, selVars, sessionVars, concVars, kgVars, storeVars>>

\* BayesianKnowledgeTracing.__init__ of a new process: the map starts empty
\* and _load_states fills it from the file.
TrkRestart ==
  /\ restarts < MaxRestarts
  /\ restarts' = restarts + 1
  /\ student_states' = LoadStates(storage)
  /\ bkt_return' = NoReturn
  /\ op' = [name |-> "load"]
  /\ UNCHANGED <<storage, selVars, sessionVars, concVars, kgVars, storeVars>>

\* Environment: one entry of the file loses its mastery_prob key.
Damaged(state_dict) ==
  [k \in DOMAIN state_dict \ {"mastery_prob"} |-> state_dict[k]]

TrkCorruptEntry(i) ==
  /\ ~storage.truncated
  /\ i \in DOMAIN storage.data
  /\ \A j \in DOMAIN storage.data : WellFormed(storage.data[j].dict)
  /\ storage' = [storage EXCEPT !.data[i].dict = Damaged(@)]
  /\ op' = [name |-> "corrupt", index |-> i]
  /\ UNCHANGED <<student_states, bkt_return, restarts, selVars, sessionVars, concVars, kgVars, storeVars>>

TrackerInit ==
  /\ SelIdle
  /\ TrackerIdle
  /\ SessionIdle
  /\ ConcIdle
  /\ KgIdle
  /\ StoreIdle
  /\ op = NoOp

TrackerNext ==
  \/ \E sid \in Students, kp \in KnowledgePoints, io \in IoOutcomes :
       TrkGetStudentState(sid, kp, io)
  \/ \E sid \in Students, kp \in KnowledgePoints, q \in TrackerQuestions,
        c \in BOOLEAN, io1 \in IoOutcomes, io2 \in IoOutcomes :
       TrkRecordAnswer(sid, kp, q, c, io1, io2)
  \/ TrkRestart
  \/ \E i \in 1..MaxAnswers : TrkCorruptEntry(i)

SpecTracker == TrackerInit /\ [][TrackerNext]_vars
Last(seq) == seq[Len(seq)]

\* C5: after every record_answer on a state created by get_student_state the
\* mastery probability lies in [0.01, 0.99].
C5_MasteryInRange ==
  \A i \in DOMAIN student_states :
    /\ student_states[i].st.mastery_prob >= MASTERY_MIN
    /\ student_states[i].st.mastery_prob <= MASTERY_MAX

\* Two wrong answers in a row drive the mastery down to the lower clamp.
C5_Witness ==
  /\ op.name = "record_answer"
  /\ \E i \in DOMAIN student_states :
       /\ Len(student_states[i].st.answer_history) >= 2
       /\ student_states[i].st.mastery_prob = MASTERY_MIN

MalformedEntries(disk) ==
  {i \in DOMAIN disk.data : ~WellFormed(disk.data[i].dict)}

\* C6: loading a store with one malformed entry keeps every other persisted
\* entry with its saved mastery and history, and the next flush still holds them.
C6_OtherEntriesIntact ==
  [][/\ (/\ op'.name = "load"
         /\ ~storage.truncated
         /\ Cardinality(MalformedEntries(storage)) = 1)
        => \A i \in DOMAIN storage.data \ MalformedEntries(storage) :
             /\ HasState(student_states', storage.data[i].sid, storage.data[i].kp)
             /\ StateDict(StateOf(student_states', storage.data[i].sid,
                                  storage.data[i].kp)) = storage.data[i].dict
     /\ (/\ op.name = "load"
         /\ ~storage.truncated
         /\ Cardinality(MalformedEntries(storage)) = 1
         /\ \/ op'.name = "record_answer"
            \/ op'.name = "get_student_state" /\ op'.created
         /\ op'.io = "ok")
        => \A i \in DOMAIN storage.data \ MalformedEntries(storage) :
             \E j \in DOMAIN storage'.data :
               /\ storage'.data[j].sid = storage.data[i].sid
               /\ storage'.data[j].kp = storage.data[i].kp
               /\ WellFormed(storage'.data[j].dict)]_vars

\* C7: a flush that fails during record_answer is surfaced to the caller.
C7_FlushFailureSurfaced ==
  (op.name = "record_answer" /\ op.io # "ok") => bkt_return.raised

\* C8: when the flush fails during record_answer the in-memory state holds the
\* applied update: the new mastery, the appended record and recent_performance.
C8_UpdateKeptOnFlushFailure ==
  (op.name = "record_answer" /\ op.io # "ok") =>
    /\ HasState(student_states, op.sid, op.kp)
    /\ LET st == StateOf(student_states, op.sid, op.kp)
           rec == Last(st.answer_history)
       IN /\ st.answer_history # <<>>
          /\ Len(st.answer_history) = bkt_return.result.total_answers
          /\ rec.is_correct = op.is_correct
          /\ rec.previous_mastery = bkt_return.result.previous_mastery
          /\ st.mastery_prob = bkt_return.result.current_mastery
          /\ st.mastery_prob =
               UpdateMasteryProbability(rec.previous_mastery, st.params, rec.is_correct)
          /\ st.recent_performance # <<>>
          /\ Last(st.recent_performance) = op.is_correct

\* A second answer is recorded while the file could not be written: the file
\* no longer matches the map.
C8_Witness ==
  /\ op.name = "record_answer"
  /\ op.io = "open_fails"
  /\ HasState(student_states, op.sid, op.kp)
  /\ Len(StateOf(student_states, op.sid, op.kp).answer_history) = 2
  /\ storage.data # Serialize(student_states)
\* C18: after every call that creates a state and every record_answer whose
\* flush met no I/O failure, the store file holds exactly the in-memory
\* state of every (student, knowledge point) pair.
C18_StoreMatchesMemory ==
  (/\ \/ op.name = "record_answer"
      \/ op.name = "get_student_state" /\ op.created
   /\ op.io = "ok") =>
    /\ ~storage.truncated
    /\ storage.data = Serialize(student_states)
    /\ LoadStates(storage) = student_states

\* A record_answer on the second of two pairs was flushed: the file holds both
\* pairs with their histories.
C18_Witness ==
  /\ op.name = "record_answer"
  /\ op.io = "ok"
  /\ Len(student_states) = 2
  /\ TotalAnswers(student_states) = 2
  /\ Len(storage.data) = 2
  /\ storage.data = Serialize(student_states)

\* C19: get_student_state on a pair that has a state returns that state and
\* changes nothing; on a pair without one it creates exactly that state, with
\* mastery equal to its p_init and empty history, and leaves the others alone.
C19_GetStateIdempotent ==
  [][op'.name = "get_student_state" =>
       IF HasState(student_states, op'.sid, op'.kp)
       THEN /\ ~op'.created
            /\ student_states' = student_states
            /\ storage' = storage
            /\ op'.state = StateOf(student_states, op'.sid, op'.kp)
       ELSE /\ op'.created
            /\ Len(student_states') = Len(student_states) + 1
            /\ HasState(student_states', op'.sid, op'.kp)
            /\ op'.state = StateOf(student_states', op'.sid, op'.kp)
            /\ op'.state.mastery_prob = op'.state.params.p_init
            /\ op'.state.answer_history = <<>>
            /\ op'.state.recent_performance = <<>>
            /\ \A i \in DOMAIN student_states :
                 /\ HasState(student_states', student_states[i].sid, student_states[i].kp)
                 /\ StateOf(student_states', student_states[i].sid, student_states[i].kp)
                      = student_states[i].st]_vars

\* A state with two recorded answers was asked for again and came back as it was.
C19_Witness ==
  /\ op.name = "get_student_state"
  /\ ~op.created
  /\ Len(op.state.answer_history) = 2
  /\ op.state.mastery_prob # op.state.params.p_init
  /\ op.state = StateOf(student_states, op.sid, op.kp)
\* The update written out for the default parameters, in units of 1/1000:
\* posterior, then learning (correct) or forgetting (incorrect), then clamp.
DefaultUpdate(p, is_correct) ==
  LET posterior == IF is_correct
                   THEN (p * 900 * 1000) \div (p * 900 + (1000 - p) * 300)
                   ELSE (p * 100 * 1000) \div (p * 100 + (1000 - p) * 700)
      moved == IF is_correct THEN posterior + ((1000 - posterior) * 200) \div 1000
               ELSE (posterior * 950) \div 1000
  IN Max(10, Min(990, moved))

\* C27: with the default parameters one correct answer on a fresh state
\* raises the mastery strictly above 0.3, one incorrect answer on the result
\* lowers it strictly below that value and not below 0.01, and both values
\* are the ones the update formula gives.
C27_DefaultScenario ==
  \A i \in DOMAIN student_states :
    LET st == student_states[i].st
        h == st.answer_history
        after1 == IF Len(h) >= 2 THEN h[2].previous_mastery ELSE st.mastery_prob
    IN (st.params = default_params /\ h # <<>> /\ h[1].is_correct) =>
         /\ h[1].previous_mastery = 300
         /\ after1 > 300
         /\ after1 = DefaultUpdate(300, TRUE)
         /\ (Len(h) = 2 /\ ~h[2].is_correct) =>
              /\ st.mastery_prob < after1
              /\ st.mastery_prob >= 10
              /\ st.mastery_prob = DefaultUpdate(after1, FALSE)

\* A correct answer, then an incorrect one, on a fresh state: 0.3, 0.649, 0.197.
C27_Witness ==
  /\ op.name = "record_answer"
  /\ ~op.is_correct
  /\ HasState(student_states, op.sid, op.kp)
  /\ LET st == StateOf(student_states, op.sid, op.kp)
     IN /\ Len(st.answer_history) = 2
        /\ st.answer_history[1].is_correct
        /\ st.answer_history[1].previous_mastery = 300
        /\ st.answer_history[2].previous_mastery = 649
        /\ st.mastery_prob = 197
\* ------------------------------------------------------------------ session
\* QuestionDatabase.get_questions_filtered(knowledge_point=...): the questions
\* of the store whose knowledge point is the one asked for, in store order.
GetQuestionsFiltered(db, knowledge_point) ==
  LET Matches(q) == q.kp = knowledge_point
  IN SelectSeq(db, Matches)

NoResult == [kind |-> "none"]

\* start_assessment as it would be if the learner's state were fetched before
\* the pool is looked at.
StartCreatesStateFirst(db, states, disk, knowledge_point, student_id, num_questions, io) ==
  LET all_available_questions == GetQuestionsFiltered(db, knowledge_point)
      total == IF Len(all_available_questions) < num_questions
               THEN Len(all_available_questions) ELSE num_questions
      got == GetStudentState(states, disk, student_id, knowledge_point, io)
      current_mastery == StateOf(got.states, student_id, knowledge_point).mastery_prob
  IN IF all_available_questions = <<>>
     THEN {[session |-> NoSession, states |-> got.states, storage |-> got.storage]}
     ELSE {IF first_question = None
           THEN [session |-> NoSession, states |-> got.states, storage |-> got.storage]
           ELSE [session |->
                   [knowledge_point |-> knowledge_point,
                    student_id |-> student_id,
                    total_questions |-> total,
                    current_index |-> 1,
                    current_question |-> first_question,
                    questions |-> <<first_question>>,
                    answer_records |-> <<>>,
                    last_result |-> NoResult,
                    used_question_ids |-> {all_available_questions[first_question].id},
                    all_available_questions |-> all_available_questions,
                    current_mastery |-> current_mastery,
                    initial_mastery |-> current_mastery],
                 states |-> got.states, storage |-> got.storage]
           : first_question \in
               SelectAdaptiveQuestion(current_mastery, all_available_questions, {})}

\* start_assessment as it would be without the clamp of lines 197-199.
StartNoClamp(db, states, disk, knowledge_point, student_id, num_questions, io) ==
  LET all_available_questions == GetQuestionsFiltered(db, knowledge_point)
      total == IF Len(all_available_questions) < num_questions
               THEN Len(all_available_questions) ELSE num_questions
      got == GetStudentState(states, disk, student_id, knowledge_point, io)
      current_mastery == StateOf(got.states, student_id, knowledge_point).mastery_prob
  IN IF all_available_questions = <<>>
     THEN {[session |-> NoSession, states |-> states, storage |-> disk]}
     ELSE {IF first_question = None
           THEN [session |-> NoSession, states |-> got.states, storage |-> got.storage]
           ELSE [session |->
                   [knowledge_point |-> knowledge_point,
                    student_id |-> student_id,
                    total_questions |-> num_questions,
                    current_index |-> 1,
                    current_question |-> first_question,
                    questions |-> <<first_question>>,
                    answer_records |-> <<>>,
                    last_result |-> NoResult,
                    used_question_ids |-> {all_available_questions[first_question].id},
                    all_available_questions |-> all_available_questions,
                    current_mastery |-> current_mastery,
                    initial_mastery |-> current_mastery],
                 states |-> got.states, storage |-> got.storage]
           : first_question \in
               SelectAdaptiveQuestion(current_mastery, all_available_questions, {})}

\* EducationSystemCore.start_assessment: the set of values the call may leave
\* behind (one per choice of the first question).  session is NoSession when
\* the call returns None.
StartOutcomes(db, states, disk, knowledge_point, student_id, num_questions, io) ==
  LET all_available_questions == GetQuestionsFiltered(db, knowledge_point)
      total == IF Len(all_available_questions) < num_questions
               THEN Len(all_available_questions) ELSE num_questions
      got == GetStudentState(states, disk, student_id, knowledge_point, io)
      current_mastery == StateOf(got.states, student_id, knowledge_point).mastery_prob
  IN IF all_available_questions = <<>>
     THEN {[session |-> NoSession, states |-> states, storage |-> disk]}
     ELSE {IF first_question = None
           THEN [session |-> NoSession, states |-> got.states, storage |-> got.storage]
           ELSE [session |->
                   [knowledge_point |-> knowledge_point,
                    student_id |-> student_id,
                    total_questions |-> total,
                    current_index |-> 1,
                    current_question |-> first_question,
                    questions |-> <<first_question>>,
                    answer_records |-> <<>>,
                    last_result |-> NoResult,
                    used_question_ids |-> {all_available_questions[first_question].id},
                    all_available_questions |-> all_available_questions,
                    current_mastery |-> current_mastery,
                    initial_mastery |-> current_mastery],
                 states |-> got.states, storage |-> got.storage]
           : first_question \in
               SelectAdaptiveQuestion(current_mastery, all_available_questions, {})}

\* EducationSystemCore.submit_answer.  eval is the outcome of
\* evaluator.check_answer: "correct", "incorrect" or "raises".  The result is
\* the set of values the call may leave behind (one per choice of the next
\* question); called tells whether record_answer ran, raised whether an
\* exception leaves submit_answer.
EvalOutcomes == {"correct", "incorrect", "raises"}

\* Lines 286-301: the session with the answer recorded.
AnsweredSession(sess, result, is_correct) ==
  LET record == [kind |-> "record",
                 question |-> sess.current_question,
                 is_correct |-> is_correct,
                 mastery_before |-> result.previous_mastery,
                 mastery_after |-> result.current_mastery,
                 mastery_change |-> result.mastery_change]
  IN [sess EXCEPT !.current_mastery = result.current_mastery,
                  !.answer_records = Append(@, record),
                  !.last_result = record]

AppendNextForgetsUsed(sess, next_question) ==
  IF next_question # None
  THEN [sess EXCEPT !.questions = Append(@, next_question)]
  ELSE [sess EXCEPT !.total_questions = sess.current_index]

AppendNextNoShrink(sess, next_question) ==
  IF next_question # None
  THEN [sess EXCEPT !.questions = Append(@, next_question),
                    !.used_question_ids =
                      @ \cup {sess.all_available_questions[next_question].id}]
  ELSE sess

\* Lines 315-321: the next question is appended, or the total is shrunk.
AppendNext(sess, next_question) ==
  IF next_question # None
  THEN [sess EXCEPT !.questions = Append(@, next_question),
                    !.used_question_ids =
                      @ \cup {sess.all_available_questions[next_question].id}]
  ELSE [sess EXCEPT !.total_questions = sess.current_index]

SubmitReturn(sess, r) ==
  [session |-> sess, states |-> r.states, storage |-> r.storage,
   called |-> TRUE, bkt |-> [raised |-> r.raised, result |-> r.result],
   raised |-> FALSE]

\* Lines 269-323 with the next question selected for the mastery read before
\* the answer instead of the one record_answer returned.
SubmitEvaluatedOldMastery(sess, states, disk, is_correct, io1, io2) ==
  LET pool == sess.all_available_questions
      r == RecordAnswer(states, disk, sess.student_id, sess.knowledge_point,
                        pool[sess.current_question], is_correct, io1, io2)
      sess1 == AnsweredSession(sess, r.result, is_correct)
  IN IF sess.current_index < sess.total_questions
     THEN {SubmitReturn(AppendNext(sess1, next_question), r)
           : next_question \in
               SelectAdaptiveQuestion(r.result.previous_mastery, pool,
                                      sess.used_question_ids)}
     ELSE {SubmitReturn(sess1, r)}

\* Lines 269-323: the evaluator returned is_correct.
SubmitEvaluated(sess, states, disk, is_correct, io1, io2) ==
  LET pool == sess.all_available_questions
      r == RecordAnswer(states, disk, sess.student_id, sess.knowledge_point,
                        pool[sess.current_question], is_correct, io1, io2)
      new_mastery == r.result.current_mastery
      sess1 == AnsweredSession(sess, r.result, is_correct)
  IN IF sess.current_index < sess.total_questions
     THEN {SubmitReturn(AppendNext(sess1, next_question), r)
           : next_question \in
               SelectAdaptiveQuestion(new_mastery, pool, sess.used_question_ids)}
     ELSE {SubmitReturn(sess1, r)}

\* submit_answer as it would be if a failing evaluator counted as an answer.
SubmitCountsFailure(sess, states, disk, eval, io1, io2) ==
  SubmitEvaluated(sess, states, disk, eval = "correct", io1, io2)

SubmitOutcomes(sess, states, disk, eval, io1, io2) ==
  IF eval = "raises"
  THEN {[session |-> [sess EXCEPT !.last_result =
                        [kind |-> "failure", question |-> sess.current_question,
                         is_correct |-> FALSE]],
         states |-> states, storage |-> disk,
         called |-> FALSE, bkt |-> [raised |-> FALSE, result |-> [current_mastery |-> 0]],
         raised |-> FALSE]}
  ELSE SubmitEvaluated(sess, states, disk, eval = "correct", io1, io2)

\* EducationSystemCore.next_question.
NextQuestionResult(sess) ==
  LET index == sess.current_index + 1
  IN IF index <= Len(sess.questions)
     THEN [sess EXCEPT !.current_index = index, !.current_question = sess.questions[index]]
     ELSE [sess EXCEPT !.current_index = index]

\* EducationSystemCore.generate_report.  outcome is what
\* evaluator.generate_comprehensive_report does with the learner id, the
\* knowledge point and the answer records: it returns the text or raises; an
\* exception is caught and turned into an error text.  The result is the
\* returned text with the mastery map and the file as the call leaves them.
ReportOutcomes == {"text", "raises"}

\* generate_report as it would be if it created the learner's state anew.
GenerateReportReinitializes(sess, states, disk, outcome) ==
  LET fresh == InitializeStudent(states, disk, sess.student_id, sess.knowledge_point, "ok")
  IN [report |-> IF outcome = "raises" THEN "failure" ELSE "report",
      states |-> fresh.states, storage |-> fresh.storage]

GenerateReport(sess, states, disk, outcome) ==
  [report |-> IF outcome = "raises" THEN "failure" ELSE "report",
   states |-> states, storage |-> disk]

\* The question stores the sessions run on: none, one question, distinct
\* identifiers over the three difficulties, a question of another knowledge
\* point, an unlabelled difficulty, and a repeated identifier.
Q(id, diff, kp) == [id |-> id, diff |-> diff, kp |-> kp]

SessionPools ==
  { <<>>,
    <<Q(1, "medium", "kp1")>>,
    <<Q(1, "easy", "kp1"), Q(2, "medium", "kp1")>>,
    <<Q(1, "easy", "kp1"), Q(2, "medium", "kp1"), Q(3, "hard", "kp1")>>,
    <<Q(1, "medium", "kp1"), Q(2, "hard", "kp2"), Q(3, "other", "kp1")>>,
    <<Q(1, "medium", "kp1"), Q(2, "easy", "kp1"), Q(1, "hard", "kp1")>> }
SessionIo == {"ok"}
MaxIndex == MaxRequest + 2

StartAssessment(knowledge_point, student_id, num_questions, io) ==
  /\ HasState(student_states, student_id, knowledge_point) => io = "ok"
  /\ \E o \in StartOutcomes(question_db, student_states, storage, knowledge_point,
                            student_id, num_questions, io) :
       /\ session' = o.session
       /\ student_states' = o.states
       /\ storage' = o.storage
  /\ bkt_return' = NoReturn
  /\ op' = [name |-> "start_assessment", kp |-> knowledge_point, num |-> num_questions]
  /\ UNCHANGED <<question_db, ui, restarts, selVars, concVars, kgVars, storeVars>>

SubmitAnswer(eval, io1, io2) ==
  /\ session # NoSession
  /\ TotalAnswers(student_states) < MaxSessionAnswers
  /\ HasState(student_states, session.student_id, session.knowledge_point) => io1 = "ok"
  /\ \E o \in SubmitOutcomes(session, student_states, storage, eval, io1, io2) :
       /\ session' = o.session
       /\ student_states' = o.states
       /\ storage' = o.storage
       /\ bkt_return' = IF o.called THEN o.bkt ELSE bkt_return
       /\ op' = [name |-> "submit_answer", eval |-> eval, io |-> io2, raised |-> o.raised]
  /\ UNCHANGED <<question_db, ui, restarts, selVars, concVars, kgVars, storeVars>>

NextQuestion ==
  /\ session # NoSession
  /\ session.current_index < MaxIndex
  /\ session' = NextQuestionResult(session)
  /\ op' = [name |-> "next_question"]
  /\ UNCHANGED <<question_db, ui, trackerVars, selVars, concVars, kgVars, storeVars>>

GenerateReportCall(outcome) ==
  LET r == GenerateReport(session, student_states, storage, outcome)
  IN /\ session # NoSession
     /\ student_states' = r.states
     /\ storage' = r.storage
     /\ op' = [name |-> "generate_report", report |-> r.report]
     /\ UNCHANGED <<question_db, session, ui, bkt_return, restarts, selVars, concVars, kgVars, storeVars>>

SessionInit ==
  /\ SelIdle
  /\ TrackerIdle
  /\ ConcIdle
  /\ question_db \in SessionPools
  /\ session = NoSession
  /\ ui = UiInitial
  /\ KgIdle
  /\ StoreIdle
  /\ op = NoOp

SessionNext ==
  \/ \E kp \in KnowledgePoints, sid \in Students, num \in 1..MaxRequest, io \in SessionIo :
       StartAssessment(kp, sid, num, io)
  \/ \E eval \in EvalOutcomes, io1 \in SessionIo, io2 \in SessionIo :
       SubmitAnswer(eval, io1, io2)
  \/ NextQuestion
  \/ \E outcome \in ReportOutcomes : GenerateReportCall(outcome)

Spec == SessionInit /\ [][SessionNext]_vars
Completed(sess) == sess # NoSession /\ sess.current_index > sess.total_questions

SubmitSucceeds == op'.name = "submit_answer" /\ op'.eval # "raises"

Unused(sess) == Candidates(sess.all_available_questions, sess.used_question_ids)

AppendsSelected ==
  /\ Len(session'.questions) = Len(session.questions) + 1
  /\ SubSeq(session'.questions, 1, Len(session.questions)) = session.questions
  /\ LET next_question == Last(session'.questions)
         pool == session.all_available_questions
     IN /\ next_question \in SelectAdaptiveQuestion(bkt_return'.result.current_mastery,
                                                    pool, session.used_question_ids)
        /\ pool[next_question].id \notin session.used_question_ids
        /\ session'.used_question_ids =
             session.used_question_ids \cup {pool[next_question].id}

C3_CompletedIsTerminal ==
  [][(Completed(session) /\ op'.name \in {"submit_answer", "next_question"}) =>
       /\ session'.current_index = session.current_index
       /\ session'.questions = session.questions
       /\ session'.answer_records = session.answer_records
       /\ student_states' = student_states]_vars

\* C9: when the evaluator fails during submit_answer no exception leaves the
\* call, and mastery state, answer records, question list, used identifiers,
\* pointer and planned total are unchanged; only last_result reports it.
C9_EvaluatorFailureChangesNothing ==
  [][(session # NoSession /\ op'.name = "submit_answer" /\ op'.eval = "raises") =>
       /\ ~op'.raised
       /\ student_states' = student_states
       /\ storage' = storage
       /\ session'.last_result.kind = "failure"
       /\ session' = [session EXCEPT !.last_result = session'.last_result]]_vars

\* The evaluator failed on the second question of a session.
C9_Witness ==
  /\ session # NoSession
  /\ op.name = "submit_answer" /\ op.eval = "raises"
  /\ session.last_result.kind = "failure"
  /\ Len(session.answer_records) = 1
  /\ session.current_index = 2

\* C10: if submit_answer cannot select a next question while the pointer is
\* below the planned total, the total becomes the pointer, no question is
\* appended, the answer is still recorded, and the call returns normally.
C10_EarlyTermination ==
  [][(session # NoSession /\ SubmitSucceeds
      /\ session.current_index < session.total_questions
      /\ Unused(session) = {}) =>
       /\ ~op'.raised
       /\ session'.total_questions = session.current_index
       /\ session'.current_index = session.current_index
       /\ session'.questions = session.questions
       /\ session'.used_question_ids = session.used_question_ids
       /\ Len(session'.answer_records) = Len(session.answer_records) + 1
       /\ Last(session'.answer_records).question = session.current_question
       /\ TotalAnswers(student_states') = TotalAnswers(student_states) + 1
       /\ StateOf(student_states', session.student_id, session.knowledge_point).mastery_prob
            = session'.current_mastery]_vars

\* A pool with a repeated identifier ran out below the planned total of 3.
C10_Witness ==
  /\ session # NoSession
  /\ op.name = "submit_answer" /\ op.eval # "raises"
  /\ Len(session.all_available_questions) = 3
  /\ session.total_questions = session.current_index
  /\ session.current_index = 2
  /\ Len(session.questions) = 2
  /\ Len(session.answer_records) = 2
  /\ Unused(session) = {}
PoolOf(knowledge_point) == GetQuestionsFiltered(question_db, knowledge_point)

\* C15: start_assessment on a knowledge point without questions returns no
\* session and leaves the mastery map and the store file as they were.
C15_EmptyPoolStartTouchesNothing ==
  [][(op'.name = "start_assessment" /\ PoolOf(op'.kp) = <<>>) =>
       /\ session' = NoSession
       /\ student_states' = student_states
       /\ storage' = storage]_vars

\* After a session on kp1 a start on kp2, which has no questions, was refused
\* and no kp2 state exists.
C15_Witness ==
  /\ op.name = "start_assessment"
  /\ op.kp = "kp2"
  /\ PoolOf("kp2") = <<>>
  /\ PoolOf("kp1") # <<>>
  /\ session = NoSession
  /\ HasState(student_states, "s1", "kp1")
  /\ ~HasState(student_states, "s1", "kp2")

\* C16: a session created by start_assessment with a requested count of at
\* least 1 has planned total min(requested count, pool size), pointer 1 and
\* exactly one selected question, so 1 <= pointer <= total <= pool size.
C16_StartedSessionShape ==
  [][(op'.name = "start_assessment" /\ op'.num >= 1 /\ session' # NoSession) =>
       /\ session'.total_questions = Min(op'.num, Len(PoolOf(op'.kp)))
       /\ session'.current_index = 1
       /\ Len(session'.questions) = 1
       /\ session'.questions[1] \in DOMAIN PoolOf(op'.kp)
       /\ 1 <= session'.current_index
       /\ session'.current_index <= session'.total_questions
       /\ session'.total_questions <= Len(PoolOf(op'.kp))]_vars

\* Three questions were asked for on a pool of two: the total is two.
C16_Witness ==
  /\ op.name = "start_assessment"
  /\ op.num = 3
  /\ session # NoSession
  /\ Len(session.all_available_questions) = 2
  /\ session.total_questions = 2
  /\ session.current_index = 1
  /\ session.answer_records = <<>>
\* C17: generate_report changes no mastery state: every mastery probability,
\* answer history and recent_performance, and the store file, are the same
\* after the call as before it.
C17_ReportMutatesNothing ==
  [][op'.name = "generate_report" =>
       /\ student_states' = student_states
       /\ storage' = storage]_vars

\* The report of a session with two recorded answers whose pointer is past the
\* total, produced while the evaluator failed.
C17_Witness ==
  /\ op.name = "generate_report"
  /\ op.report = "failure"
  /\ session # NoSession
  /\ Completed(session)
  /\ Len(session.answer_records) = 2
  /\ Len(StateOf(student_states, session.student_id,
                 session.knowledge_point).answer_history) = 2
\* C30: after any sequence of submit_answer and next_question calls the
\* question list and the answer records are never longer than the planned total.
C30_ListsWithinPlannedTotal ==
  session # NoSession =>
    /\ Len(session.questions) <= session.total_questions
    /\ Len(session.answer_records) <= session.total_questions
\* The identifier of the i-th question of the session's list.
ListedId(i) == session.all_available_questions[session.questions[i]].id

DistinctPoolIds ==
  \A i \in DOMAIN session.all_available_questions :
    \A j \in DOMAIN session.all_available_questions :
      i # j => session.all_available_questions[i].id # session.all_available_questions[j].id

\* C31: with pairwise distinct identifiers in the pool, after any sequence of
\* start_assessment, submit_answer and next_question calls no identifier is
\* twice in the session's question list, and used_question_ids is the set of
\* the identifiers in that list.
C31_UsedIdsAreListedIds ==
  (session # NoSession /\ DistinctPoolIds) =>
    /\ \A i \in DOMAIN session.questions : \A j \in DOMAIN session.questions :
         i # j => ListedId(i) # ListedId(j)
    /\ session.used_question_ids = {ListedId(i) : i \in DOMAIN session.questions}

\* Three questions were selected one after another from a pool of three
\* distinct identifiers, with next_question between the submits.
C31_Witness ==
  /\ session # NoSession
  /\ DistinctPoolIds
  /\ Len(session.questions) = 3
  /\ Cardinality(session.used_question_ids) = 3
  /\ Len(session.answer_records) >= 2
  /\ session.current_index >= 2

\* ------------------------------------------- record_answer from two threads
\* Two handler threads call record_answer for the same (student, knowledge
\* point) on the shared tracker.  The pair already has a state (every session
\* creates it in start_assessment), so get_student_state returns the shared
\* object.  The tracker takes no lock: a thread switch may happen between any
\* two of the statements below, each of which is one step.
ConcStudent == "s1"
ConcKp == "kp1"
ConcQuestion(t) == Q(t, "medium", ConcKp)

FreshState ==
  [student_id |-> ConcStudent, knowledge_point |-> ConcKp, mastery_prob |-> P_INIT,
   answer_history |-> <<>>, recent_performance |-> <<>>, params |-> default_params]

ConcStartStates ==
  {FreshState} \cup {RecordedState(FreshState, Q(3, "easy", ConcKp), c) : c \in BOOLEAN}

Shared == StateOf(student_states, ConcStudent, ConcKp)

SetShared(state) ==
  student_states' = PutState(student_states, ConcStudent, ConcKp, state)

ConcFrame == UNCHANGED <<bkt_return, restarts, selVars, kgVars, storeVars, sessionVars, conc_start, op>>

\* Line 324 and line 332: state = get_student_state(...); the answer record
\* reads state.mastery_prob as previous_mastery.
ThReadPrevious(t) ==
  /\ threads[t].pc = "call"
  /\ threads' = [threads EXCEPT ![t].pc = "update",
                                ![t].previous_mastery = Shared.mastery_prob]
  /\ UNCHANGED <<student_states, storage>>
  /\ ConcFrame

\* Line 278: update_mastery_probability reads state.mastery_prob.
ThReadMastery(t) ==
  /\ threads[t].pc = "update"
  /\ threads' = [threads EXCEPT ![t].pc = "write", ![t].p_mastery = Shared.mastery_prob]
  /\ UNCHANGED <<student_states, storage>>
  /\ ConcFrame

\* Line 305: state.mastery_prob = p_mastery_updated.
ThWriteMastery(t) ==
  /\ threads[t].pc = "write"
  /\ SetShared([Shared EXCEPT !.mastery_prob =
                  UpdateMasteryProbability(threads[t].p_mastery, Shared.params,
                                           threads[t].is_correct)])
  /\ threads' = [threads EXCEPT ![t].pc = "recent"]
  /\ UNCHANGED storage
  /\ ConcFrame

\* Lines 339-341: recent_performance.append, then the trim to 10.
ThAppendRecent(t) ==
  /\ threads[t].pc = "recent"
  /\ LET appended == Append(Shared.recent_performance, threads[t].is_correct)
     IN SetShared([Shared EXCEPT !.recent_performance =
                     IF Len(appended) > RECENT_WINDOW THEN Tail(appended) ELSE appended])
  /\ threads' = [threads EXCEPT ![t].pc = "history"]
  /\ UNCHANGED storage
  /\ ConcFrame

\* Line 343: answer_history.append(answer_record).
ThAppendHistory(t) ==
  /\ threads[t].pc = "history"
  /\ SetShared([Shared EXCEPT !.answer_history =
                  Append(@, [question |-> ConcQuestion(t),
                             is_correct |-> threads[t].is_correct,
                             difficulty |-> ConcQuestion(t).diff,
                             previous_mastery |-> threads[t].previous_mastery])])
  /\ threads' = [threads EXCEPT ![t].pc = "save"]
  /\ UNCHANGED storage
  /\ ConcFrame

\* Line 346: _save_states(), then the result is built and returned.
ThSave(t) ==
  /\ threads[t].pc = "save"
  /\ storage' = SaveStates(student_states, storage, "ok").storage
  /\ threads' = [threads EXCEPT ![t].pc = "done"]
  /\ UNCHANGED student_states
  /\ ConcFrame

ConcInit ==
  /\ SelIdle
  /\ SessionIdle
  /\ conc_start \in ConcStartStates
  /\ student_states = PutState(<<>>, ConcStudent, ConcKp, conc_start)
  /\ storage = SaveStates(student_states, EmptyStorage, "ok").storage
  /\ bkt_return = NoReturn
  /\ restarts = 0
  /\ threads \in [Threads -> {[pc |-> "call", is_correct |-> c, previous_mastery |-> 0,
                               p_mastery |-> 0] : c \in BOOLEAN}]
  /\ KgIdle
  /\ StoreIdle
  /\ op = NoOp

ConcNext ==
  \E t \in Threads :
    \/ ThReadPrevious(t)
    \/ ThReadMastery(t)
    \/ ThWriteMastery(t)
    \/ ThAppendRecent(t)
    \/ ThAppendHistory(t)
    \/ ThSave(t)

SpecConc == ConcInit /\ [][ConcNext]_vars

\* The state after thread a's call ran to its end and then thread b's call.
OneAfterTheOther(a, b) ==
  RecordedState(RecordedState(conc_start, ConcQuestion(a), threads[a].is_correct),
                ConcQuestion(b), threads[b].is_correct)

\* C4: two concurrent record_answer calls for one (student, knowledge point)
\* leave the mastery, the answer history and recent_performance that running
\* them one after the other, in one of the two orders, would leave.
C4_ConcurrentUpdatesSerialize ==
  (\A t \in Threads : threads[t].pc = "done") =>
    \E a \in Threads : \E b \in Threads \ {a} :
      /\ Shared.mastery_prob = OneAfterTheOther(a, b).mastery_prob
      /\ Shared.answer_history = OneAfterTheOther(a, b).answer_history
      /\ Shared.recent_performance = OneAfterTheOther(a, b).recent_performance
\* --------------------------------------------- a long run of answers
\* One learner answers question after question on one knowledge point, long
\* enough for recent_performance to overflow its window.
WinRecordAnswer(is_correct) ==
  LET r == RecordAnswer(student_states, storage, ConcStudent, ConcKp,
                        Q(1, "medium", ConcKp), is_correct, "ok", "ok")
  IN /\ TotalAnswers(student_states) < MaxWindowAnswers
     /\ student_states' = r.states
     /\ storage' = r.storage
     /\ bkt_return' = [raised |-> r.raised, result |-> r.result]
     /\ op' = [name |-> "record_answer", sid |-> ConcStudent, kp |-> ConcKp,
               is_correct |-> is_correct, io |-> "ok"]
     /\ UNCHANGED <<restarts, selVars, sessionVars, concVars, kgVars, storeVars>>

WindowInit ==
  /\ SelIdle
  /\ TrackerIdle
  /\ SessionIdle
  /\ ConcIdle
  /\ KgIdle
  /\ StoreIdle
  /\ op = NoOp

WindowNext == \E is_correct \in BOOLEAN : WinRecordAnswer(is_correct)

SpecWindow == WindowInit /\ [][WindowNext]_vars

\* C20: after n record_answer calls on one (student, knowledge point),
\* recent_performance has length min(10, n) and holds the correctness of the
\* last min(10, n) history records in order.
C20_RecentIsLastTen ==
  \A i \in DOMAIN student_states :
    LET st == student_states[i].st
        n == Len(st.answer_history)
        k == Min(10, n)
    IN /\ Len(st.recent_performance) = k
       /\ Len(st.recent_performance) <= 10
       /\ \A j \in 1..k :
            st.recent_performance[j] = st.answer_history[n - k + j].is_correct

\* Eleven answers: the first, correct, one was evicted and the window starts
\* with the second, wrong, one.
C20_Witness ==
  /\ op.name = "record_answer"
  /\ HasState(student_states, ConcStudent, ConcKp)
  /\ LET st == StateOf(student_states, ConcStudent, ConcKp)
     IN /\ Len(st.answer_history) = 11
        /\ Len(st.recent_performance) = 10
        /\ st.answer_history[1].is_correct
        /\ ~st.answer_history[2].is_correct
        /\ ~st.recent_performance[1]
\* ----------------------------------------------------- the assessment tab
\* EducationSystemUI: the callbacks of the start, submit, next and restart
\* buttons.  session is the gr.State the callbacks pass along; a button can be
\* clicked only while it and the area that holds it are visible.
UiPools ==
  SessionPools \cup
    { <<Q(1, "easy", "kp1"), Q(2, "medium", "kp1"), Q(3, "hard", "kp1"),
        Q(4, "medium", "kp1")>> }

\* _start_assessment: the outputs are session_state, quiz_area, the question
\* text and numbers and the answer box; the buttons are not among them.
UiStartAssessment(knowledge, student_id, num) ==
  /\ ui.sessions < MaxSessions
  /\ \E o \in StartOutcomes(question_db, student_states, storage, knowledge,
                            student_id, num, "ok") :
       /\ session' = o.session
       /\ student_states' = o.states
       /\ storage' = o.storage
       /\ ui' = [ui EXCEPT !.quiz_area = (o.session # NoSession),
                           !.sessions = @ + 1,
                           !.num = num]
  /\ bkt_return' = NoReturn
  /\ op' = [name |-> "ui_start", kp |-> knowledge, num |-> num]
  /\ UNCHANGED <<question_db, restarts, selVars, concVars, kgVars, storeVars>>

\* _submit_answer.
UiSubmitAnswer(eval) ==
  /\ ui.quiz_area /\ ui.submit_btn
  /\ IF session = NoSession
     THEN UNCHANGED <<session, student_states, storage, bkt_return, ui>>
     ELSE \E o \in SubmitOutcomes(session, student_states, storage, eval, "ok", "ok") :
            /\ session' = o.session
            /\ student_states' = o.states
            /\ storage' = o.storage
            /\ bkt_return' = IF o.called THEN o.bkt ELSE bkt_return
            /\ ui' = [ui EXCEPT !.feedback = TRUE, !.submit_btn = FALSE, !.next_btn = TRUE]
  /\ op' = [name |-> "ui_submit", eval |-> eval]
  /\ UNCHANGED <<question_db, restarts, selVars, concVars, kgVars, storeVars>>

\* _next_question as it would be if it did nothing once the pointer has
\* reached the total.
UiNextQuestionIgnoresEnd(outcome) ==
  /\ ui.quiz_area /\ ui.next_btn
  /\ IF session = NoSession \/ session.current_index >= session.total_questions
     THEN /\ UNCHANGED <<session, student_states, storage, ui>>
          /\ op' = [name |-> "ui_next", branch |-> "none"]
     ELSE /\ session' = NextQuestionResult(session)
          /\ ui' = [ui EXCEPT !.feedback = FALSE, !.submit_btn = TRUE,
                              !.next_btn = FALSE, !.quiz_area = TRUE,
                              !.report_area = FALSE, !.report = "none"]
          /\ op' = [name |-> "ui_next", branch |-> "advance"]
          /\ UNCHANGED <<student_states, storage>>
  /\ UNCHANGED <<question_db, bkt_return, restarts, selVars, concVars, kgVars, storeVars>>

\* _next_question: the report when the pointer has reached the total, the
\* next question otherwise.
UiNextQuestion(outcome) ==
  /\ ui.quiz_area /\ ui.next_btn
  /\ IF session = NoSession
     THEN /\ UNCHANGED <<session, student_states, storage, ui>>
          /\ op' = [name |-> "ui_next", branch |-> "none"]
     ELSE IF session.current_index >= session.total_questions
     THEN LET r == GenerateReport(session, student_states, storage, outcome)
          IN /\ student_states' = r.states
             /\ storage' = r.storage
             /\ session' = session
             /\ ui' = [ui EXCEPT !.feedback = FALSE, !.submit_btn = FALSE,
                                 !.next_btn = FALSE, !.quiz_area = FALSE,
                                 !.report_area = TRUE, !.report = r.report,
                                 !.report_of = ui.sessions]
             /\ op' = [name |-> "ui_next", branch |-> "report"]
     ELSE /\ session' = NextQuestionResult(session)
          /\ ui' = [ui EXCEPT !.feedback = FALSE, !.submit_btn = TRUE,
                              !.next_btn = FALSE, !.quiz_area = TRUE,
                              !.report_area = FALSE, !.report = "none"]
          /\ op' = [name |-> "ui_next", branch |-> "advance"]
          /\ UNCHANGED <<student_states, storage>>
  /\ UNCHANGED <<question_db, bkt_return, restarts, selVars, concVars, kgVars, storeVars>>

\* The restart button of the report area.
UiRestart ==
  /\ ui.report_area
  /\ session' = NoSession
  /\ ui' = [ui EXCEPT !.quiz_area = FALSE, !.report_area = FALSE]
  /\ op' = [name |-> "ui_restart"]
  /\ UNCHANGED <<question_db, trackerVars, selVars, concVars, kgVars, storeVars>>

\* The mastery map the page starts with, as loaded from the file of earlier
\* runs: no state, or the learner's kp1 state after one wrong answer or after
\* two correct ones.
UiLoadedStates ==
  LET q == Q(1, "medium", ConcKp)
      wrong == RecordedState(FreshState, q, FALSE)
      right == RecordedState(RecordedState(FreshState, q, TRUE), q, TRUE)
  IN {<<>>, PutState(<<>>, ConcStudent, ConcKp, wrong),
      PutState(<<>>, ConcStudent, ConcKp, right)}

UiInit ==
  /\ SelIdle
  /\ ConcIdle
  /\ student_states \in UiLoadedStates
  /\ storage = [truncated |-> FALSE, data |-> Serialize(student_states)]
  /\ student_states = LoadStates(storage)
  /\ bkt_return = NoReturn
  /\ restarts = 0
  /\ question_db \in UiPools
  /\ session = NoSession
  /\ ui = UiInitial
  /\ KgIdle
  /\ StoreIdle
  /\ op = NoOp

UiNext ==
  \/ \E kp \in KnowledgePoints, sid \in Students, num \in SLIDER_MIN..MaxRequest :
       UiStartAssessment(kp, sid, num)
  \/ \E eval \in EvalOutcomes : UiSubmitAnswer(eval)
  \/ \E outcome \in ReportOutcomes : UiNextQuestion(outcome)
  \/ UiRestart

\* The submit button can be clicked exactly while it and the quiz area are shown.
SubmitShown == ui.quiz_area /\ ui.submit_btn

\* The learner keeps clicking the button that is shown: weak fairness of the
\* submit click and of the next click.  For the submit click it is written
\* out, with the visibility of the button as its enabling condition.
SpecUI ==
  /\ UiInit
  /\ [][UiNext]_vars
  /\ (<>[]SubmitShown => []<><<\E eval \in EvalOutcomes : UiSubmitAnswer(eval)>>_vars)
  /\ WF_vars(\E outcome \in ReportOutcomes : UiNextQuestion(outcome))

\* The session of the k-th click on start is on the page and one of its two
\* buttons is shown.
Driven(k) ==
  /\ ui.sessions = k
  /\ session # NoSession
  /\ ui.quiz_area
  /\ ui.submit_btn \/ ui.next_btn

\* C11: a session started on a non-empty pool and driven by submit and next
\* clicks in turn never holds more answers than min(requested count, pool
\* size), and reaches its report unless another start replaces it.
C11_DrivenSessionCompletes ==
  /\ [](session # NoSession =>
          Len(session.answer_records)
            <= Min(ui.num, Len(session.all_available_questions)))
  /\ \A k \in 1..MaxSessions :
       Driven(k) ~> (ui.report_of = k \/ ui.sessions > k)

\* The report of a session whose pool ran out below the planned total of 3.
C11_Witness ==
  /\ op.name = "ui_next" /\ op.branch = "report"
  /\ ui.report_area
  /\ ui.report_of = ui.sessions
  /\ session # NoSession
  /\ ui.num = 3
  /\ Len(session.all_available_questions) = 3
  /\ session.total_questions = 2
  /\ Len(session.answer_records) = 2
  /\ Unused(session) = {}
\* C28: in a session driven by submit and next clicks, evaluator failures
\* included, whenever the pointer is at most the planned total the question
\* list has an entry at the pointer and the current question is that entry.
C28_CurrentQuestionAtPointer ==
  (session # NoSession /\ session.current_index <= session.total_questions) =>
    /\ session.current_index <= Len(session.questions)
    /\ session.current_question = session.questions[session.current_index]

\* The identifier of the question of an answer record.
AnsweredId(record) == session.all_available_questions[record.question].id

\* C29: in a session driven by submit and next clicks, evaluator failures
\* included, no question identifier has two answer records, so mastery gets
\* at most one record_answer update per question.
C29_NoQuestionAnsweredTwice ==
  session # NoSession =>
    \A i \in DOMAIN session.answer_records : \A j \in DOMAIN session.answer_records :
      i # j => AnsweredId(session.answer_records[i]) # AnsweredId(session.answer_records[j])
\* ------------------------------------------- a learner with a long history
\* The tracker of a learner who answered on kp1 and kp2 before, nine to eleven
\* times in all, is asked for the state of a knowledge point that has none.
ParamHistoryLengths == {<<5, 4>>, <<5, 5>>, <<6, 5>>}
NewKnowledgePoint == "kp3"

RECURSIVE Replay(_, _)
Replay(state, answers) ==
  IF answers = <<>> THEN state
  ELSE Replay(RecordedState(state, Q(1, "medium", state.knowledge_point), Head(answers)),
              Tail(answers))

\* The map after record_answer was called with the answers h1 on kp1 and h2
\* on kp2; both states were created with the default parameters.
HistoryStates(h1, h2) ==
  LET s1 == Replay([FreshState EXCEPT !.knowledge_point = "kp1"], h1)
      s2 == Replay([FreshState EXCEPT !.knowledge_point = "kp2"], h2)
  IN PutState(PutState(<<>>, ConcStudent, "kp1", s1), ConcStudent, "kp2", s2)

ParGetStudentState(knowledge_point) ==
  LET got == GetStudentState(student_states, storage, ConcStudent, knowledge_point, "ok")
  IN /\ student_states' = got.states
     /\ storage' = got.storage
     /\ bkt_return' = NoReturn
     /\ op' = [name |-> "get_student_state", sid |-> ConcStudent,
               kp |-> knowledge_point, io |-> "ok",
               created |-> ~HasState(student_states, ConcStudent, knowledge_point),
               state |-> StateOf(got.states, ConcStudent, knowledge_point)]
     /\ UNCHANGED <<restarts, selVars, sessionVars, concVars, kgVars, storeVars>>

ParamsInit ==
  /\ SelIdle
  /\ SessionIdle
  /\ ConcIdle
  /\ \E n \in ParamHistoryLengths :
       \E h1 \in [1..n[1] -> BOOLEAN], h2 \in [1..n[2] -> BOOLEAN] :
         student_states = HistoryStates(h1, h2)
  /\ storage = [truncated |-> FALSE, data |-> Serialize(student_states)]
  /\ bkt_return = NoReturn
  /\ restarts = 0
  /\ KgIdle
  /\ StoreIdle
  /\ op = NoOp

ParamsNext == \E kp \in {"kp1", NewKnowledgePoint} : ParGetStudentState(kp)

SpecParams == ParamsInit /\ [][ParamsNext]_vars

\* The learner's answer records and correct answers, summed over all entries.
RecordsOf(states) ==
  LET n[i \in 0..Len(states)] ==
        IF i = 0 THEN 0 ELSE n[i - 1] + Len(states[i].st.answer_history)
  IN n[Len(states)]

CorrectOf(states) ==
  LET n[i \in 0..Len(states)] ==
        IF i = 0 THEN 0
        ELSE n[i - 1] + Cardinality({j \in DOMAIN states[i].st.answer_history :
                                       states[i].st.answer_history[j].is_correct})
  IN n[Len(states)]

\* C26: a state created by get_student_state has the default parameters when
\* the learner has fewer than 10 answer records over all knowledge points;
\* with 10 or more its initial mastery is 0.5 for an accuracy above 0.8, 0.4
\* for an accuracy above 0.6 and 0.2 otherwise; the states that exist keep
\* their parameters and mastery.
C26_PersonalizedInitialMastery ==
  [][(op'.name = "get_student_state" /\ op'.created) =>
       LET total == RecordsOf(student_states)
           correct == CorrectOf(student_states)
       IN /\ total < 10 => op'.state.params = default_params
          /\ total >= 10 =>
               op'.state.params.p_init =
                 IF 10 * correct > 8 * total THEN 500
                 ELSE IF 10 * correct > 6 * total THEN 400
                 ELSE 200
          /\ op'.state.mastery_prob = op'.state.params.p_init
          /\ \A i \in DOMAIN student_states :
               /\ HasState(student_states', student_states[i].sid, student_states[i].kp)
               /\ StateOf(student_states', student_states[i].sid, student_states[i].kp)
                    = student_states[i].st]_vars

\* Eight of ten answers over two knowledge points were correct: the accuracy
\* is exactly 0.8 and the new state starts at 0.4.
C26_Witness ==
  /\ op.name = "get_student_state"
  /\ op.created
  /\ op.kp = NewKnowledgePoint
  /\ RecordsOf(student_states) = 10
  /\ CorrectOf(student_states) = 8
  /\ Len(student_states) = 3
  /\ op.state.mastery_prob = 400
  /\ StateOf(student_states, ConcStudent, "kp1").params = default_params

\* ------------------------------------------- the knowledge graph builder
\* kg_builder.py. A graph is a networkx DiGraph: its nodes in insertion order,
\* each with its attributes, and one edge per ordered pair of nodes, kept in
\* the order of first insertion. A node name is [kind, key], for the strings
\* "Q<id>", "KP_Major:<major>", "KP_Minor:<major>/<minor>", "Concept:<name>"
\* and "Method:<name>".

MaxBuilds == 2

NodeName(kind, key) == [kind |-> kind, key |-> key]

\* str(q_id) inside f"Q{q_id}".
IdStr(q_id) == <<"1", "2", "3", "4", "5", "6">>[q_id]

\* f"{major}/{minor}" for the topics of the corpora.
KpKey(major, minor) ==
  CASE major = "m1" /\ minor = "t1" -> "m1/t1"
    [] major = "m1" /\ minor = "t2" -> "m1/t2"
    [] major = "m1" /\ minor = "t3" -> "m1/t3"
    [] major = "m1" /\ minor = "t4" -> "m1/t4"
    [] major = "m1" /\ minor = "t5" -> "m1/t5"
    [] OTHER -> "m2/t1"

\* A question of the corpus: 题号, 知识点大类, 知识点小类 and 难度, which is a
\* number in thousandths, absent, or a text label.
KgQuestion(q_id, major, minor, difficulty) ==
  [id |-> q_id, major |-> major, minor |-> minor, difficulty |-> difficulty]
Number(n) == [kind |-> "number", value |-> n]
NoDifficulty == [kind |-> "missing", value |-> 0]
LabelDifficulty == [kind |-> "label", value |-> 0]

HasNode(g, name) == \E i \in DOMAIN g.nodes : g.nodes[i].name = name
NodeIndex(g, name) == CHOOSE i \in DOMAIN g.nodes : g.nodes[i].name = name
NodeAttrs(g, name) == g.nodes[NodeIndex(g, name)]
HasEdge(g, u, v) == \E i \in DOMAIN g.edges : g.edges[i].u = u /\ g.edges[i].v = v
EdgeIndex(g, u, v) == CHOOSE i \in DOMAIN g.edges : g.edges[i].u = u /\ g.edges[i].v = v
EdgeRelation(g, u, v) == g.edges[EdgeIndex(g, u, v)].relation
NumberOfNodes(g) == Len(g.nodes)
NumberOfEdges(g) == Len(g.edges)

\* DiGraph.add_node: a new node is appended, an existing one has its
\* attributes updated. type "none" and data <<>> stand for an absent attribute.
AddNode(g, name, type, data) ==
  LET node == [name |-> name, type |-> type, data |-> data]
  IN IF HasNode(g, name)
     THEN [g EXCEPT !.nodes[NodeIndex(g, name)] = node]
     ELSE [g EXCEPT !.nodes = Append(@, node)]

\* DiGraph.add_edge: endpoints that are not nodes yet are added without
\* attributes; an existing edge keeps its place and takes the new relation.
AddEdge(g, u, v, relation) ==
  LET g1 == IF HasNode(g, u) THEN g ELSE AddNode(g, u, "none", <<>>)
      g2 == IF HasNode(g1, v) THEN g1 ELSE AddNode(g1, v, "none", <<>>)
  IN IF HasEdge(g2, u, v)
     THEN [g2 EXCEPT !.edges[EdgeIndex(g2, u, v)].relation = relation]
     ELSE [g2 EXCEPT !.edges = Append(@, [u |-> u, v |-> v, relation |-> relation])]

\* _add_basic_nodes, one question.
AddQuestionNodes(g, q) ==
  LET q_node == NodeName("Q", IdStr(q.id))
      major_node == NodeName("KP_Major", q.major)
      minor_node == NodeName("KP_Minor", KpKey(q.major, q.minor))
      g1 == AddNode(g, q_node, "question", <<q>>)
      g2 == IF HasNode(g1, major_node) THEN g1
            ELSE AddNode(g1, major_node, "major_point", <<>>)
      g3 == IF HasNode(g2, minor_node) THEN g2
            ELSE AddNode(g2, minor_node, "minor_point", <<>>)
      g4 == AddEdge(g3, minor_node, major_node, "belongs_to")
  IN AddEdge(g4, q_node, minor_node, "tests")

\* _add_basic_nodes: prev is the graph after the questions before the i-th.
AddBasicNodes(g, questions) ==
  LET f[i \in 0..Len(questions)] ==
        IF i = 0 THEN g
        ELSE CHOOSE next \in {AddQuestionNodes(prev, questions[i]) : prev \in {f[i - 1]}} : TRUE
  IN f[Len(questions)]

\* The keys of kp_groups in the order of the dict: first appearance.
GroupKeys(questions) ==
  LET f[i \in 0..Len(questions)] ==
        IF i = 0 THEN <<>>
        ELSE LET key == KpKey(questions[i].major, questions[i].minor)
             IN IF \E j \in DOMAIN f[i - 1] : f[i - 1][j] = key
                THEN f[i - 1] ELSE Append(f[i - 1], key)
  IN f[Len(questions)]

\* A value of one field of the relations: a list of strings, a string (a
\* for loop walks its characters), a value that cannot be iterated (null, a
\* number), or no such field.
List(items) == [kind |-> "list", items |-> items]
Str(chars) == [kind |-> "string", items |-> chars]
Scalar == [kind |-> "scalar", items |-> <<>>]
Missing == [kind |-> "missing", items |-> <<>>]

Relations(concepts, prerequisites, next_topics, methods) ==
  [concepts |-> concepts, prerequisites |-> prerequisites,
   next_topics |-> next_topics, methods |-> methods]

EmptyRelations == Relations(List(<<>>), List(<<>>), List(<<>>), List(<<>>))

\* _extract_list: the pieces of the first line with the label, split at the
\* separator, blank pieces dropped; no such line gives the empty list. lines
\* has, per label, the pieces of its first line, <<>> when no line has it.
ExtractList(lines, label) ==
  LET IsItem(piece) == piece # ""
  IN SelectSeq(lines[label], IsItem)

\* _parse_llm_response. The response is json (text whose outermost braces hold
\* a JSON object, given by its fields), text (anything else: the labelled
\* lines it contains), or not a string, for which the call raises.
ParseLlmResponse(response) ==
  CASE response.kind = "json" -> [raised |-> FALSE, relations |-> response.fields]
    [] response.kind = "text" ->
         [raised |-> FALSE,
          relations |-> Relations(List(ExtractList(response.lines, "concepts")),
                                  List(ExtractList(response.lines, "prerequisites")),
                                  List(ExtractList(response.lines, "next_topics")),
                                  List(ExtractList(response.lines, "methods")))]
    [] OTHER -> [raised |-> TRUE, relations |-> EmptyRelations]

\* _call_llm_for_relations: whatever generate or the parser raises gives the
\* empty relations.
CallLlmForRelations(response) ==
  IF response.kind = "raises" THEN EmptyRelations
  ELSE LET parsed == ParseLlmResponse(response)
       IN IF parsed.raised THEN EmptyRelations ELSE parsed.relations

\* relations.get(field, []) walked by a for loop: the items, or a TypeError.
Iterable(value) == value.kind # "scalar"

AddConceptsToQuestions(g, minor_node, items, kind, relation) ==
  LET f[i \in 0..Len(items)] ==
        IF i = 0 THEN g
        ELSE LET node == NodeName(kind, items[i])
                 g1 == IF HasNode(f[i - 1], node) THEN f[i - 1]
                       ELSE AddNode(f[i - 1], node, IF kind = "Concept" THEN "concept" ELSE "method", <<>>)
                 g2 == AddEdge(g1, minor_node, node, relation)
                 tests == {j \in DOMAIN g2.edges : g2.edges[j].v = minor_node
                                                    /\ g2.edges[j].relation = "tests"}
             IN IF tests = {} THEN g2
                ELSE AddEdge(g2, g2.edges[CHOOSE j \in tests : TRUE].u, node, relation)
  IN f[Len(items)]

\* The four loops of _add_relations_to_graph.
AddConcepts(g, minor_node, items, kind, relation) ==
  LET f[i \in 0..Len(items)] ==
        IF i = 0 THEN g
        ELSE LET node == NodeName(kind, items[i])
                 g1 == IF HasNode(f[i - 1], node) THEN f[i - 1]
                       ELSE AddNode(f[i - 1], node, IF kind = "Concept" THEN "concept" ELSE "method", <<>>)
             IN AddEdge(g1, minor_node, node, relation)
  IN f[Len(items)]

AddPrerequisites(g, minor_node, items) ==
  LET f[i \in 0..Len(items)] ==
        IF i = 0 THEN g
        ELSE LET prereq_node == NodeName("KP_Minor", items[i])
             IN IF HasNode(f[i - 1], prereq_node)
                THEN AddEdge(f[i - 1], prereq_node, minor_node, "prerequisite")
                ELSE f[i - 1]
  IN f[Len(items)]

AddNextTopicsUnguarded(g, minor_node, items) ==
  LET f[i \in 0..Len(items)] ==
        IF i = 0 THEN g
        ELSE AddEdge(f[i - 1], minor_node, NodeName("KP_Minor", items[i]), "leads_to")
  IN f[Len(items)]

AddNextTopics(g, minor_node, items) ==
  LET f[i \in 0..Len(items)] ==
        IF i = 0 THEN g
        ELSE LET next_node == NodeName("KP_Minor", items[i])
             IN IF HasNode(f[i - 1], next_node)
                THEN AddEdge(f[i - 1], minor_node, next_node, "leads_to")
                ELSE f[i - 1]
  IN f[Len(items)]

\* _add_relations_to_graph: the graph after the loops that ran, and whether a
\* loop raised because its field cannot be iterated.
AddRelationsToGraph(g, kp_key, relations) ==
  LET minor_node == NodeName("KP_Minor", kp_key)
      g1 == AddConcepts(g, minor_node, relations.concepts.items, "Concept", "involves")
      g2 == AddPrerequisites(g1, minor_node, relations.prerequisites.items)
      g3 == AddNextTopics(g2, minor_node, relations.next_topics.items)
      g4 == AddConcepts(g3, minor_node, relations.methods.items, "Method", "uses")
  IN CASE ~Iterable(relations.concepts) -> [graph |-> g, raised |-> TRUE]
       [] ~Iterable(relations.prerequisites) -> [graph |-> g1, raised |-> TRUE]
       [] ~Iterable(relations.next_topics) -> [graph |-> g2, raised |-> TRUE]
       [] ~Iterable(relations.methods) -> [graph |-> g3, raised |-> TRUE]
       [] OTHER -> [graph |-> g4, raised |-> FALSE]

\* _extract_relations_with_llm: the groups in order, each with the response
\* the model gives for it; an exception of a group ends the loop. prev is the
\* outcome of the groups before the i-th.
ExtractRelationsWithLlm(g, questions, responses) ==
  LET keys == GroupKeys(questions)
      f[i \in 0..Len(keys)] ==
        IF i = 0 THEN [graph |-> g, raised |-> FALSE]
        ELSE CHOOSE next \in
               {IF prev.raised THEN prev
                ELSE AddRelationsToGraph(prev.graph, keys[i],
                                         CallLlmForRelations(responses[keys[i]])) :
                  prev \in {f[i - 1]}} : TRUE
  IN f[Len(keys)]

\* pickle.dump of the graph object: its class and one stream of node and edge
\* items.
Pickle(g) ==
  LET n == Len(g.nodes)
  IN [kind |-> "pickle",
      class |-> g.class,
      stream |-> [i \in 1..(n + Len(g.edges)) |->
                    IF i <= n
                    THEN [tag |-> "node", name |-> g.nodes[i].name, type |-> g.nodes[i].type,
                          data |-> g.nodes[i].data, to |-> g.nodes[i].name, relation |-> ""]
                    ELSE [tag |-> "edge", name |-> g.edges[i - n].u, type |-> "",
                          data |-> <<>>, to |-> g.edges[i - n].v,
                          relation |-> g.edges[i - n].relation]]]

\* pickle.load of a readable file: the object the stream describes.
Unpickle(file) ==
  LET IsNode(item) == item.tag = "node"
      IsEdge(item) == item.tag = "edge"
      node_items == SelectSeq(file.stream, IsNode)
      edge_items == SelectSeq(file.stream, IsEdge)
  IN [class |-> file.class,
      nodes |-> [i \in DOMAIN node_items |->
                   [name |-> node_items[i].name, type |-> node_items[i].type,
                    data |-> node_items[i].data]],
      edges |-> [i \in DOMAIN edge_items |->
                   [u |-> edge_items[i].name, v |-> edge_items[i].to,
                    relation |-> edge_items[i].relation]]]

\* What open and pickle.dump can do to the file: write it, fail before the
\* file is opened, or fail after it was opened for writing.
SaveOutcomes == {"ok", "fails", "partial"}
TruncatedCache == [kind |-> "truncated", class |-> "", stream |-> <<>>]

\* _save_to_cache: every exception is logged and dropped.
SaveToCache(g, cache, save) ==
  CASE save = "ok" -> Pickle(g)
    [] save = "partial" -> TruncatedCache
    [] OTHER -> cache

\* _load_from_cache: the loaded object is assigned to self.graph before the
\* log line asks it for its node count; an exception is raised again.
LoadFromCache(g, cache) ==
  IF cache.kind # "pickle"
  THEN [graph |-> g, outcome |-> "raised"]
  ELSE [graph |-> Unpickle(cache),
        outcome |-> IF cache.class = "DiGraph" THEN "returned" ELSE "raised"]

CacheHitNever(cache, force_rebuild) == FALSE

\* The test at the head of build_from_questions.
CacheHit(cache, force_rebuild) == ~force_rebuild /\ cache.kind # "absent"

\* build_from_questions. load is what load_model does when the model is not
\* loaded yet; responses has the model's response for each group.
BuildFromQuestions(g, cache, questions, force_rebuild, load, responses, save) ==
  IF CacheHit(cache, force_rebuild)
  THEN LET loaded == LoadFromCache(g, cache)
       IN [graph |-> loaded.graph, cache |-> cache, path |-> "cache",
           outcome |-> loaded.outcome]
  ELSE IF load = "raises" \/ (g.class # "DiGraph" /\ questions # <<>>)
  THEN [graph |-> g, cache |-> cache, path |-> "build", outcome |-> "raised"]
  ELSE LET extracted == ExtractRelationsWithLlm(AddBasicNodes(g, questions),
                                                questions, responses)
       IN IF extracted.raised
          THEN [graph |-> extracted.graph, cache |-> cache, path |-> "build",
                outcome |-> "raised"]
          ELSE [graph |-> extracted.graph,
                cache |-> SaveToCache(extracted.graph, cache, save),
                path |-> "build",
                outcome |-> IF g.class = "DiGraph" THEN "returned" ELSE "raised"]

\* The corpora: two topics of one major topic; in the second the same 题号
\* comes twice, under two topics.
KgCorpora ==
  { <<KgQuestion(1, "m1", "t1", Number(250)), KgQuestion(2, "m1", "t1", NoDifficulty),
      KgQuestion(3, "m1", "t2", Number(750))>>,
    <<KgQuestion(1, "m1", "t1", Number(500)), KgQuestion(2, "m1", "t2", Number(250)),
      KgQuestion(1, "m1", "t2", LabelDifficulty)>> }

\* The corpora of the retrieval: all difficulties are numbers in the first;
\* in the second question 1 tests both topics and question 3 has a label.
RagCorpora ==
  { <<KgQuestion(1, "m1", "t1", Number(250)), KgQuestion(2, "m1", "t1", NoDifficulty),
      KgQuestion(3, "m1", "t2", Number(750))>>,
    <<KgQuestion(1, "m1", "t1", Number(500)), KgQuestion(2, "m1", "t2", Number(250)),
      KgQuestion(1, "m1", "t2", Number(750)), KgQuestion(3, "m1", "t1", LabelDifficulty)>> }

NoLines == [concepts |-> <<>>, prerequisites |-> <<>>, next_topics |-> <<>>, methods |-> <<>>]
Response(kind, fields, lines) == [kind |-> kind, fields |-> fields, lines |-> lines]

\* The response that gives the four lists.
GoodResponse ==
  Response("json", Relations(List(<<"c1", "c2">>), List(<<"m1/t1">>),
                             List(<<"m1/t1", "m1/t3">>), List(<<"mt1">>)), NoLines)

\* The groups of the corpora.
KgTopics == {"m1/t1", "m1/t2"}

\* What generate gives for a group: it raises; a value that is not a string;
\* text without a JSON object, with or without labelled lines; a JSON object
\* with the four lists; one without some fields; one with a null field; one
\* with a string in place of a list.
KgResponses ==
  { Response("raises", EmptyRelations, NoLines),
    Response("none", EmptyRelations, NoLines),
    Response("text", EmptyRelations, NoLines),
    Response("text", EmptyRelations,
             [NoLines EXCEPT !.concepts = <<"c1", "">>, !.prerequisites = <<"m1/t2">>]),
    GoodResponse,
    Response("json", Relations(List(<<"c2">>), Missing, Missing, Missing), NoLines),
    Response("json", Relations(List(<<"c1">>), Scalar, List(<<>>), List(<<"mt1">>)), NoLines),
    Response("json", Relations(Str(<<"c", "1">>), List(<<>>), List(<<>>), List(<<>>)), NoLines) }

\* Cache files that the builder did not write: a pickle of another object,
\* and a pickle of a DiGraph whose node has no type and whose edge has a
\* relation of no known kind.
ForeignGraph ==
  AddEdge(AddNode(EmptyGraph, NodeName("Q", "1"), "none", <<>>),
          NodeName("Q", "1"), NodeName("KP_Minor", "m1/t1"), "related")
ForeignCaches ==
  { TruncatedCache,
    Pickle([class |-> "dict", nodes |-> <<>>, edges |-> <<>>]),
    Pickle(ForeignGraph) }

\* The graph has the node types and edge relations of a knowledge graph, and
\* its question nodes carry their question.
NodeTypes == {"question", "major_point", "minor_point", "concept", "method"}
EdgeRelations == {"belongs_to", "tests", "involves", "prerequisite", "leads_to", "uses"}
WellFormedGraph(g) ==
  /\ g.class = "DiGraph"
  /\ \A i \in DOMAIN g.nodes :
       /\ g.nodes[i].type \in NodeTypes
       /\ g.nodes[i].type = "question" => g.nodes[i].data # <<>>
  /\ \A i \in DOMAIN g.edges :
       /\ g.edges[i].relation \in EdgeRelations
       /\ HasNode(g, g.edges[i].u)
       /\ HasNode(g, g.edges[i].v)

\* op.prev of a build: the counts of the graph the build before it returned,
\* when that build was the step before and the cache holds its graph.
NoPrev == [nodes |-> 0, edges |-> 0, built |-> FALSE]

\* op.relations of a build: what _call_llm_for_relations returned for each
\* group, nothing when the build did not ask the extractor.
NoRelations == <<>>

KgBuild(force_rebuild, load, responses, save) ==
  /\ kg_builds < MaxBuilds
  /\ LET built == BuildFromQuestions(kg_graph, kg_cache, kg_questions, force_rebuild,
                                     load, responses, save)
     IN /\ kg_graph' = built.graph
        /\ kg_cache' = built.cache
        /\ op' = [name |-> "build", force_rebuild |-> force_rebuild, path |-> built.path,
                  load |-> load, outcome |-> built.outcome,
                  relations |-> IF ~CacheHit(kg_cache, force_rebuild) /\ load = "ok"
                                THEN [k \in KgTopics |-> CallLlmForRelations(responses[k])]
                                ELSE NoRelations,
                  base_built |-> WellFormedGraph(kg_graph),
                  prev |-> IF op.name = "build" /\ op.outcome = "returned"
                              /\ kg_cache = Pickle(kg_graph)
                           THEN [nodes |-> NumberOfNodes(kg_graph),
                                 edges |-> NumberOfEdges(kg_graph),
                                 built |-> op.path = "build"]
                           ELSE NoPrev]
  /\ kg_builds' = kg_builds + 1
  /\ UNCHANGED <<kg_questions, selVars, trackerVars, sessionVars, concVars, storeVars>>

\* Another program, or an older version, writes the cache file.
KgCacheReplaced(content) ==
  /\ kg_builds < MaxBuilds
  /\ kg_cache # content
  /\ kg_cache' = content
  /\ op' = [name |-> "cache_replaced"]
  /\ UNCHANGED <<kg_questions, kg_graph, kg_builds, selVars, trackerVars, sessionVars, concVars, storeVars>>

KgInit ==
  /\ SelIdle
  /\ TrackerIdle
  /\ SessionIdle
  /\ ConcIdle
  /\ StoreIdle
  /\ kg_questions \in KgCorpora
  /\ kg_graph = EmptyGraph
  /\ kg_cache = NoCache
  /\ kg_builds = 0
  /\ op = NoOp

KgNext ==
  \/ \E force_rebuild \in BOOLEAN, load \in {"ok", "raises"}, save \in SaveOutcomes :
       \E key \in KgTopics, response \in KgResponses :
         KgBuild(force_rebuild, load, [k \in KgTopics |-> IF k = key THEN response ELSE GoodResponse], save)
  \/ \E content \in ForeignCaches : KgCacheReplaced(content)

SpecKG == KgInit /\ [][KgNext]_vars

\* C21: a build that has to extract relations, with the model loaded, returns
\* the graph whatever the extractor raises or answers for a group.
C21_GroupFailureNeverAborts ==
  (op.name = "build" /\ op.path = "build" /\ op.load = "ok" /\ kg_graph.class = "DiGraph")
    => op.outcome = "returned"

\* C22: a build that takes the cache returns only a well-formed knowledge
\* graph; with an unreadable or structurally invalid cache it raises.
C22_CacheHitIsValidated ==
  (op.name = "build" /\ op.path = "cache" /\ op.outcome = "returned")
    => WellFormedGraph(kg_graph)

\* C23: a build without force_rebuild that follows a build of the same
\* questions, with the cache of that build on disk, returns a graph with the
\* node count and the edge count the first build returned.
C23_SecondBuildSameCounts ==
  (op.name = "build" /\ ~op.force_rebuild /\ op.prev # NoPrev) =>
    /\ op.outcome = "returned"
    /\ NumberOfNodes(kg_graph) = op.prev.nodes
    /\ NumberOfEdges(kg_graph) = op.prev.edges

\* The first build extracted relations and wrote the cache; the second took
\* the cache and returned as many nodes and edges.
C23_Witness ==
  /\ op.name = "build"
  /\ ~op.force_rebuild
  /\ op.prev.built
  /\ op.path = "cache"
  /\ op.outcome = "returned"
  /\ kg_builds = 2
  /\ NumberOfNodes(kg_graph) = op.prev.nodes
  /\ NumberOfEdges(kg_graph) = op.prev.edges
  /\ \E i \in DOMAIN kg_graph.edges : kg_graph.edges[i].relation = "leads_to"

\* The topic nodes that _add_basic_nodes derives from the questions.
DerivedMajors == {NodeName("KP_Major", kg_questions[i].major) : i \in DOMAIN kg_questions}
DerivedMinors ==
  {NodeName("KP_Minor", KpKey(kg_questions[i].major, kg_questions[i].minor)) :
     i \in DOMAIN kg_questions}
TopicKinds == {"KP_Major", "KP_Minor"}
TopicRelations == {"prerequisite", "leads_to"}

\* C35: after a build on a builder whose graph is the empty one or one of its
\* own, the major and minor topic nodes are the ones derived from the
\* questions, every prerequisite or leads_to edge joins two of these minor
\* topics, and a topic name of the extractor that is no node adds no node
\* and no edge.
C35_RelationsAddNoTopic ==
  (op.name = "build" /\ op.path = "build" /\ op.outcome = "returned" /\ op.base_built) =>
    /\ {kg_graph.nodes[i].name : i \in {j \in DOMAIN kg_graph.nodes :
            kg_graph.nodes[j].type = "major_point" \/ kg_graph.nodes[j].name.kind = "KP_Major"}}
         = DerivedMajors
    /\ {kg_graph.nodes[i].name : i \in {j \in DOMAIN kg_graph.nodes :
            kg_graph.nodes[j].type = "minor_point" \/ kg_graph.nodes[j].name.kind = "KP_Minor"}}
         = DerivedMinors
    /\ \A i \in DOMAIN kg_graph.edges :
         kg_graph.edges[i].relation \in TopicRelations =>
           /\ kg_graph.edges[i].u \in DerivedMinors
           /\ kg_graph.edges[i].v \in DerivedMinors
           /\ NodeAttrs(kg_graph, kg_graph.edges[i].u).type = "minor_point"
           /\ NodeAttrs(kg_graph, kg_graph.edges[i].v).type = "minor_point"
    /\ \A i \in DOMAIN kg_graph.edges :
         /\ kg_graph.edges[i].u.kind \in TopicKinds =>
              kg_graph.edges[i].u \in DerivedMajors \cup DerivedMinors
         /\ kg_graph.edges[i].v.kind \in TopicKinds =>
              kg_graph.edges[i].v \in DerivedMajors \cup DerivedMinors

\* Both groups got the response whose next_topics names m1/t3, a topic of no
\* question, besides m1/t1: the build added the leads_to edge to m1/t1 and
\* neither a node nor an edge for m1/t3.
C35_Witness ==
  /\ op.name = "build"
  /\ op.path = "build"
  /\ op.outcome = "returned"
  /\ op.base_built
  /\ \A k \in KgTopics : op.relations[k] = GoodResponse.fields
  /\ ~HasNode(kg_graph, NodeName("KP_Minor", "m1/t3"))
  /\ HasEdge(kg_graph, NodeName("KP_Minor", "m1/t2"), NodeName("KP_Minor", "m1/t1"))
  /\ EdgeRelation(kg_graph, NodeName("KP_Minor", "m1/t2"), NodeName("KP_Minor", "m1/t1"))
       = "leads_to"

\* The prerequisites that the extractor reports for a group.
ReportedPrerequisites(kp_key) == op.relations[kp_key].prerequisites.items

\* C36: after a build that returned, every prerequisite that the extractor
\* reported between two minor topics of the graph is a prerequisite edge of
\* the graph, whatever other relation was merged for the same pair.
C36_PrerequisiteEdgesKept ==
  (op.name = "build" /\ op.path = "build" /\ op.outcome = "returned" /\ op.base_built) =>
    \A k \in DOMAIN GroupKeys(kg_questions) :
      LET kp_key == GroupKeys(kg_questions)[k]
      IN \A i \in DOMAIN ReportedPrerequisites(kp_key) :
           LET prereq_node == NodeName("KP_Minor", ReportedPrerequisites(kp_key)[i])
               minor_node == NodeName("KP_Minor", kp_key)
           IN HasNode(kg_graph, prereq_node) =>
                /\ HasEdge(kg_graph, prereq_node, minor_node)
                /\ EdgeRelation(kg_graph, prereq_node, minor_node) = "prerequisite"

\* The graph a new builder returns for the questions when the extractor
\* gives it the relations of the build.
FreshBuild ==
  BuildFromQuestions(EmptyGraph, NoCache, kg_questions, TRUE, "ok",
                     [k \in KgTopics |-> Response("json", op.relations[k], NoLines)],
                     "ok").graph

\* C37: a forced rebuild on a builder that holds a graph returns the graph
\* that a new builder returns for the same questions and responses.
C37_ForcedRebuildIsFresh ==
  (op.name = "build" /\ op.force_rebuild /\ op.path = "build" /\ op.outcome = "returned") =>
    /\ {kg_graph.nodes[i] : i \in DOMAIN kg_graph.nodes}
         = {FreshBuild.nodes[i] : i \in DOMAIN FreshBuild.nodes}
    /\ {kg_graph.edges[i] : i \in DOMAIN kg_graph.edges}
         = {FreshBuild.edges[i] : i \in DOMAIN FreshBuild.edges}

\* ------------------------------------------- retrieval over the graph
\* rag_engine.py. Scores are in thousandths, the total score in ten
\* thousandths (the weights are 4, 3, 2 and 1 tenths).

MaxTopK == 2

RAG_ENOUGH_DIRECT == 5
RAG_MAX_RELATED == 3
RAG_LOW_MASTERY == 400
RAG_HIGH_MASTERY == 700
RAG_EASY_BELOW == 300
RAG_MEDIUM_BELOW == 700
TARGET_EASY == 250
TARGET_MEDIUM == 500
TARGET_HARD == 750
DEFAULT_DIFFICULTY == 500
NO_PATH_RELEVANCE == 500
FITNESS_HIGH == 1000
FITNESS_MID == 700
FITNESS_LOW == 400

\* graph.predecessors(v) and graph.successors(u), in the order of the edges.
Predecessors(g, v) ==
  LET Into(e) == e.v = v
      es == SelectSeq(g.edges, Into)
  IN [i \in DOMAIN es |-> es[i].u]

Successors(g, u) ==
  LET From(e) == e.u = u
      es == SelectSeq(g.edges, From)
  IN [i \in DOMAIN es |-> es[i].v]

InSeq(x, seq) == \E i \in DOMAIN seq : seq[i] = x

GetRelatedKnowledgePointsInclusive(g, target_kp, student_mastery) ==
  LET IsPrerequisite(pred) == EdgeRelation(g, pred, target_kp) = "prerequisite"
      LeadsTo(succ) == EdgeRelation(g, target_kp, succ) = "leads_to"
      IsMajor(succ) == NodeAttrs(g, succ).type = "major_point"
      majors == SelectSeq(Successors(g, target_kp), IsMajor)
      IsSibling(pred) == NodeAttrs(g, pred).type = "minor_point" /\ pred # target_kp
      related ==
        IF ~HasNode(g, target_kp) THEN <<>>
        ELSE IF student_mastery <= RAG_LOW_MASTERY
        THEN SelectSeq(Predecessors(g, target_kp), IsPrerequisite)
        ELSE IF student_mastery >= RAG_HIGH_MASTERY
        THEN SelectSeq(Successors(g, target_kp), LeadsTo)
        ELSE IF majors = <<>> THEN <<>>
        ELSE SelectSeq(Predecessors(g, majors[1]), IsSibling)
  IN IF Len(related) <= RAG_MAX_RELATED THEN related
     ELSE SubSeq(related, 1, RAG_MAX_RELATED)

\* _get_related_knowledge_points
GetRelatedKnowledgePoints(g, target_kp, student_mastery) ==
  LET IsPrerequisite(pred) == EdgeRelation(g, pred, target_kp) = "prerequisite"
      LeadsTo(succ) == EdgeRelation(g, target_kp, succ) = "leads_to"
      IsMajor(succ) == NodeAttrs(g, succ).type = "major_point"
      majors == SelectSeq(Successors(g, target_kp), IsMajor)
      IsSibling(pred) == NodeAttrs(g, pred).type = "minor_point" /\ pred # target_kp
      related ==
        IF ~HasNode(g, target_kp) THEN <<>>
        ELSE IF student_mastery < RAG_LOW_MASTERY
        THEN SelectSeq(Predecessors(g, target_kp), IsPrerequisite)
        ELSE IF student_mastery > RAG_HIGH_MASTERY
        THEN SelectSeq(Successors(g, target_kp), LeadsTo)
        ELSE IF majors = <<>> THEN <<>>
        ELSE SelectSeq(Predecessors(g, majors[1]), IsSibling)
  IN IF Len(related) <= RAG_MAX_RELATED THEN related
     ELSE SubSeq(related, 1, RAG_MAX_RELATED)

\* The test of both loops of _get_candidate_questions: the node's name starts
\* with Q, it is a question, and its 题号 is not used.
IsUnusedQuestion(g, neighbor, used_question_ids) ==
  /\ neighbor.kind = "Q"
  /\ NodeAttrs(g, neighbor).type = "question"
  /\ NodeAttrs(g, neighbor).data[1].id \notin used_question_ids

\* The first loop of _get_candidate_questions.
DirectCandidates(g, target_kp, used_question_ids) ==
  LET Ok(neighbor) == IsUnusedQuestion(g, neighbor, used_question_ids)
  IN IF HasNode(g, target_kp) THEN SelectSeq(Predecessors(g, target_kp), Ok) ELSE <<>>

AddCandidatesOfAnyId(g, candidates, related_kp, used_question_ids) ==
  LET preds == Predecessors(g, related_kp)
      f[i \in 0..Len(preds)] ==
        IF i = 0 THEN candidates
        ELSE IF IsUnusedQuestion(g, preds[i], {}) /\ ~InSeq(preds[i], f[i - 1])
        THEN Append(f[i - 1], preds[i])
        ELSE f[i - 1]
  IN IF HasNode(g, related_kp) THEN f[Len(preds)] ELSE candidates

\* The inner loop of the expansion: the unused questions of one related
\* topic that are not candidates yet.
AddCandidatesOf(g, candidates, related_kp, used_question_ids) ==
  LET preds == Predecessors(g, related_kp)
      f[i \in 0..Len(preds)] ==
        IF i = 0 THEN candidates
        ELSE IF IsUnusedQuestion(g, preds[i], used_question_ids) /\ ~InSeq(preds[i], f[i - 1])
        THEN Append(f[i - 1], preds[i])
        ELSE f[i - 1]
  IN IF HasNode(g, related_kp) THEN f[Len(preds)] ELSE candidates

\* _get_candidate_questions: the candidates' nodes; a candidate's q_data is
\* the data of its node.
GetCandidateQuestions(g, target_kp, student_mastery, used_question_ids) ==
  LET direct == DirectCandidates(g, target_kp, used_question_ids)
      related_kps == GetRelatedKnowledgePoints(g, target_kp, student_mastery)
      f[i \in 0..Len(related_kps)] ==
        IF i = 0 THEN direct
        ELSE AddCandidatesOf(g, f[i - 1], related_kps[i], used_question_ids)
  IN IF Len(direct) < RAG_ENOUGH_DIRECT THEN f[Len(related_kps)] ELSE direct

\* _get_target_difficulty
GetTargetDifficulty(student_mastery) ==
  IF student_mastery < RAG_EASY_BELOW THEN TARGET_EASY
  ELSE IF student_mastery < RAG_MEDIUM_BELOW THEN TARGET_MEDIUM
  ELSE TARGET_HARD

Abs(x) == IF x < 0 THEN 0 - x ELSE x

\* nx.shortest_path_length: the least number of edges from source to target,
\* 0 - 1 when there is no path. reached has the nodes at most k edges away.
RECURSIVE PathSearch(_, _, _, _)
PathSearch(g, reached, target, k) ==
  LET next == reached \cup {g.edges[i].v : i \in {j \in DOMAIN g.edges : g.edges[j].u \in reached}}
  IN IF target \in reached THEN k
     ELSE IF next = reached THEN 0 - 1
     ELSE PathSearch(g, next, target, k + 1)

ShortestPathLength(g, source, target) == PathSearch(g, {source}, target, 0)

\* _calculate_relevance
CalculateRelevance(g, q_node, target_kp) ==
  LET path_length == ShortestPathLength(g, q_node, target_kp)
  IN IF path_length >= 0 THEN Scale \div (path_length + 1) ELSE NO_PATH_RELEVANCE

\* _calculate_path_fitness
CalculatePathFitness(g, q_node) ==
  LET succs == Successors(g, q_node)
      concept_count == Cardinality({i \in DOMAIN succs : NodeAttrs(g, succs[i]).type = "concept"})
  IN IF 2 <= concept_count /\ concept_count <= 4 THEN FITNESS_HIGH
     ELSE IF concept_count = 1 \/ concept_count = 5 THEN FITNESS_MID
     ELSE FITNESS_LOW

\* q_data.get('难度', 0.5) minus the target raises a TypeError for a label.
ScoreRaises(q_data) == q_data.difficulty.kind = "label"

\* _calculate_question_score; diversity is the value of random.random().
CalculateQuestionScore(g, q_node, q_data, target_kp, student_mastery, diversity) ==
  LET q_difficulty == IF q_data.difficulty.kind = "missing" THEN DEFAULT_DIFFICULTY
                      ELSE q_data.difficulty.value
      difficulty_score == Scale - Abs(q_difficulty - GetTargetDifficulty(student_mastery))
  IN 4 * difficulty_score + 3 * CalculateRelevance(g, q_node, target_kp)
     + 2 * CalculatePathFitness(g, q_node) + diversity

SortUnsorted(scored) == scored

\* list.sort(key=score, reverse=True): by descending score, equal scores in
\* their order in the list.
SortByScore(scored) ==
  LET Insert(sorted, x) ==
        LET k == Cardinality({i \in DOMAIN sorted : sorted[i].score >= x.score})
        IN SubSeq(sorted, 1, k) \o <<x>> \o SubSeq(sorted, k + 1, Len(sorted))
      f[i \in 0..Len(scored)] ==
        IF i = 0 THEN <<>> ELSE Insert(f[i - 1], scored[i])
  IN f[Len(scored)]

\* The data of a candidate's node.
QuestionData(g, q_node) == NodeAttrs(g, q_node).data[1]

\* One entry of scored_questions.
ScoredQuestion(g, q_node, q_data, target_kp, student_mastery, diversity) ==
  [question |-> q_data, node |-> q_node,
   score |-> CalculateQuestionScore(g, q_node, q_data, target_kp, student_mastery, diversity)]

\* The scoring loop of search_questions_for_student; diversity has the value
\* of random.random() for every question node.
ScoreCandidates(g, candidates, target_kp, student_mastery, diversity) ==
  [i \in DOMAIN candidates |->
     ScoredQuestion(g, candidates[i], QuestionData(g, candidates[i]), target_kp,
                    student_mastery, diversity[candidates[i].key])]

\* scored_questions[:top_k] after the sort.
TopK(sorted, top_k) == SubSeq(sorted, 1, IF top_k < Len(sorted) THEN top_k ELSE Len(sorted))

\* What search_questions_for_student does with its candidates: an empty list
\* is returned as it is, a candidate that cannot be scored raises.
SearchCandidates(g, candidates, target_kp, student_mastery, top_k, diversity) ==
  IF \E i \in DOMAIN candidates : ScoreRaises(QuestionData(g, candidates[i]))
  THEN [raised |-> TRUE, candidates |-> candidates, scored |-> <<>>, results |-> <<>>]
  ELSE [raised |-> FALSE, candidates |-> candidates,
        scored |-> ScoreCandidates(g, candidates, target_kp, student_mastery, diversity),
        results |-> TopK(SortByScore(ScoreCandidates(g, candidates, target_kp,
                                                     student_mastery, diversity)), top_k)]

\* search_questions_for_student
SearchQuestionsForStudent(g, target_key, student_mastery, used_question_ids, top_k, diversity) ==
  SearchCandidates(g,
                   IF HasNode(g, NodeName("KP_Minor", target_key))
                   THEN GetCandidateQuestions(g, NodeName("KP_Minor", target_key),
                                              student_mastery, used_question_ids)
                   ELSE <<>>,
                   NodeName("KP_Minor", target_key), student_mastery, top_k, diversity)

\* The minor topics asked for: the two of the corpora and one of no question.
RagTargets == KgTopics \cup {"m1/t3"}
RagMasteries == {200, 500, 800}
RagUsedIds == SUBSET {1, 2, 3}
DiversityValues == {0, 999}
RagQuestionKeys == {"1", "2", "3"}

\* The call and what it gave.
SearchOp(target_key, student_mastery, used_question_ids, top_k, found) ==
  [name |-> "search", target |-> target_key, mastery |-> student_mastery,
   used |-> used_question_ids, top_k |-> top_k, raised |-> found.raised,
   candidates |-> found.candidates, scored |-> found.scored, results |-> found.results]

\* A search changes nothing in the engine, so every result shows in the first
\* call on a graph.
RagSearch(target_key, student_mastery, used_question_ids, top_k, diversity) ==
  /\ op = NoOp
  /\ op' = SearchOp(target_key, student_mastery, used_question_ids, top_k,
                    SearchQuestionsForStudent(kg_graph, target_key, student_mastery,
                                              used_question_ids, top_k, diversity))
  /\ UNCHANGED <<kgVars, storeVars, selVars, trackerVars, sessionVars, concVars>>

\* The engine is made with a graph that a build returned.
RagInit ==
  /\ SelIdle
  /\ TrackerIdle
  /\ SessionIdle
  /\ ConcIdle
  /\ StoreIdle
  /\ \E corpus \in RagCorpora, key \in KgTopics, response \in KgResponses :
       LET built == BuildFromQuestions(EmptyGraph, NoCache, corpus, FALSE, "ok",
                                       [k \in KgTopics |-> IF k = key THEN response
                                                          ELSE GoodResponse], "ok")
       IN /\ built.outcome = "returned"
          /\ kg_questions = corpus
          /\ kg_graph = built.graph
          /\ kg_cache = built.cache
  /\ kg_builds = 1
  /\ op = NoOp

RagNext ==
  \E target_key \in RagTargets, student_mastery \in RagMasteries,
     used_question_ids \in RagUsedIds, top_k \in 0..MaxTopK,
     diversity \in [RagQuestionKeys -> DiversityValues] :
       RagSearch(target_key, student_mastery, used_question_ids, top_k, diversity)

SpecRag == RagInit /\ [][RagNext]_vars

\* C24: no question that retrieve returns has its 题号 in used_question_ids,
\* and no question is returned twice, be it a question of the target topic
\* or of a related topic.
C24_ResultsUnusedAndDistinct ==
  (op.name = "search" /\ ~op.raised) =>
    /\ \A i \in DOMAIN op.results : op.results[i].question.id \notin op.used
    /\ \A i \in DOMAIN op.results : \A j \in DOMAIN op.results :
         i # j => /\ op.results[i].node # op.results[j].node
                  /\ op.results[i].question.id # op.results[j].question.id

\* Question 1 tests both topics and topic t1 is a prerequisite of the target
\* t2: it is found directly and again through t1, and returned once; the
\* used question 3 of t1 is not returned.
C24_Witness ==
  /\ op.name = "search"
  /\ ~op.raised
  /\ op.target = "m1/t2"
  /\ op.used = {3}
  /\ HasEdge(kg_graph, NodeName("Q", "1"), NodeName("KP_Minor", "m1/t1"))
  /\ HasEdge(kg_graph, NodeName("Q", "1"), NodeName("KP_Minor", "m1/t2"))
  /\ HasEdge(kg_graph, NodeName("Q", "3"), NodeName("KP_Minor", "m1/t1"))
  /\ InSeq(NodeName("KP_Minor", "m1/t1"),
           GetRelatedKnowledgePoints(kg_graph, NodeName("KP_Minor", "m1/t2"), op.mastery))
  /\ Len(op.results) = 2
  /\ \E i \in DOMAIN op.results : op.results[i].node = NodeName("Q", "1")

IsDirectCandidate(q_node) ==
  /\ HasEdge(kg_graph, q_node, NodeName("KP_Minor", op.target))
  /\ EdgeRelation(kg_graph, q_node, NodeName("KP_Minor", op.target)) = "tests"
RelevanceOf(q_node) == CalculateRelevance(kg_graph, q_node, NodeName("KP_Minor", op.target))

\* C32: a candidate with a tests edge to the target minor topic has the
\* relevance term 1.0, a candidate two edges away has 1/3, and without a path
\* the term is 0.5.
C32_DirectRelevanceIsOne ==
  op.name = "search" =>
    \A i \in DOMAIN op.candidates :
      LET path_length == ShortestPathLength(kg_graph, op.candidates[i],
                                            NodeName("KP_Minor", op.target))
      IN /\ IsDirectCandidate(op.candidates[i]) => RelevanceOf(op.candidates[i]) = Scale
         /\ path_length = 2 => RelevanceOf(op.candidates[i]) = Scale \div 3
         /\ path_length < 0 => RelevanceOf(op.candidates[i]) = NO_PATH_RELEVANCE

\* C33: in a retrieval on a built graph a candidate that tests the target
\* has a strictly higher relevance term than every candidate found only
\* through a related topic.
C33_DirectOutranksExpansion ==
  op.name = "search" =>
    \A i \in DOMAIN op.candidates : \A j \in DOMAIN op.candidates :
      (IsDirectCandidate(op.candidates[i]) /\ ~IsDirectCandidate(op.candidates[j]))
        => RelevanceOf(op.candidates[i]) > RelevanceOf(op.candidates[j])

\* C38: in a built graph a question node has no incoming edge and only tests
\* edges to minor topics going out, so the path fitness of every candidate of
\* every retrieval is the value of no concept.
C38_NoConceptBesideQuestion ==
  /\ \A i \in DOMAIN kg_graph.edges :
       /\ NodeAttrs(kg_graph, kg_graph.edges[i].v).type # "question"
       /\ NodeAttrs(kg_graph, kg_graph.edges[i].u).type = "question" =>
            /\ kg_graph.edges[i].relation = "tests"
            /\ NodeAttrs(kg_graph, kg_graph.edges[i].v).type = "minor_point"
  /\ op.name = "search" =>
       \A i \in DOMAIN op.candidates :
         CalculatePathFitness(kg_graph, op.candidates[i]) = FITNESS_LOW

\* A retrieval with three candidates on a graph whose topics have concepts:
\* the candidates are scored and none of them has a concept beside it.
C38_Witness ==
  /\ op.name = "search"
  /\ ~op.raised
  /\ Len(op.candidates) = 3
  /\ Len(op.scored) = 3
  /\ \E i \in DOMAIN kg_graph.nodes : kg_graph.nodes[i].type = "concept"
  /\ \A i \in DOMAIN op.candidates :
       /\ NodeAttrs(kg_graph, op.candidates[i]).type = "question"
       /\ CalculatePathFitness(kg_graph, op.candidates[i]) = FITNESS_LOW

\* ------------------------------------------- the expansion to related topics
\* Retrieval on graphs with a topic of five questions, with a topic of four
\* siblings, four prerequisites and four next topics, and with topics of two
\* major topics.

ExpandCorpora ==
  { <<KgQuestion(1, "m1", "t1", Number(250)), KgQuestion(2, "m1", "t1", Number(500)),
      KgQuestion(3, "m1", "t1", Number(750)), KgQuestion(4, "m1", "t1", NoDifficulty),
      KgQuestion(5, "m1", "t1", Number(500)), KgQuestion(6, "m1", "t2", Number(500))>>,
    <<KgQuestion(1, "m1", "t1", Number(250)), KgQuestion(2, "m1", "t2", Number(500)),
      KgQuestion(3, "m1", "t3", Number(750)), KgQuestion(4, "m1", "t4", NoDifficulty),
      KgQuestion(5, "m1", "t5", Number(500))>>,
    <<KgQuestion(1, "m1", "t1", Number(250)), KgQuestion(2, "m1", "t2", Number(500)),
      KgQuestion(6, "m2", "t1", Number(500))>> }

ExpandTopics == {"m1/t1", "m1/t2", "m1/t3", "m1/t4", "m1/t5", "m2/t1"}

\* The response for the group m1/t1 that names four prerequisites and four
\* next topics.
WideResponse ==
  Response("json", Relations(List(<<"c1">>),
                             List(<<"m1/t5", "m1/t4", "m1/t3", "m1/t2">>),
                             List(<<"m2/t1", "m1/t5", "m1/t2", "m1/t3">>),
                             List(<<>>)), NoLines)

ExpandResponses == {WideResponse, GoodResponse, Response("raises", EmptyRelations, NoLines)}

\* Masteries on both sides of the two thresholds and on them.
ExpandMasteries == {RAG_LOW_MASTERY - 1, RAG_LOW_MASTERY, RAG_HIGH_MASTERY, RAG_HIGH_MASTERY + 1}
ExpandUsedIds == SUBSET {1, 6}
ExpandQuestionKeys == {"1", "2", "3", "4", "5", "6"}

ExpandInit ==
  /\ SelIdle
  /\ TrackerIdle
  /\ SessionIdle
  /\ ConcIdle
  /\ StoreIdle
  /\ \E corpus \in ExpandCorpora, response \in ExpandResponses :
       LET built == BuildFromQuestions(EmptyGraph, NoCache, corpus, FALSE, "ok",
                                       [k \in ExpandTopics |->
                                          IF k = "m1/t1" THEN response
                                          ELSE Response("raises", EmptyRelations, NoLines)],
                                       "ok")
       IN /\ built.outcome = "returned"
          /\ kg_questions = corpus
          /\ kg_graph = built.graph
          /\ kg_cache = built.cache
  /\ kg_builds = 1
  /\ op = NoOp

ExpandNext ==
  \E target_key \in ExpandTopics, student_mastery \in ExpandMasteries,
     used_question_ids \in ExpandUsedIds, top_k \in 1..MaxTopK,
     value \in DiversityValues :
       RagSearch(target_key, student_mastery, used_question_ids, top_k,
                 [k \in ExpandQuestionKeys |-> value])

SpecExpand == ExpandInit /\ [][ExpandNext]_vars

\* The unused questions that test a topic, and the related topics by the
\* edges of the graph.
UnusedQuestionsOf(kp) ==
  {kg_graph.edges[i].u : i \in {j \in DOMAIN kg_graph.edges :
     /\ kg_graph.edges[j].v = kp
     /\ NodeAttrs(kg_graph, kg_graph.edges[j].u).type = "question"
     /\ NodeAttrs(kg_graph, kg_graph.edges[j].u).data[1].id \notin op.used}}
PrerequisiteSources(kp) ==
  {kg_graph.edges[i].u : i \in {j \in DOMAIN kg_graph.edges :
     kg_graph.edges[j].v = kp /\ kg_graph.edges[j].relation = "prerequisite"}}
LeadsToTargets(kp) ==
  {kg_graph.edges[i].v : i \in {j \in DOMAIN kg_graph.edges :
     kg_graph.edges[j].u = kp /\ kg_graph.edges[j].relation = "leads_to"}}
SiblingTopics(kp) ==
  {kg_graph.nodes[i].name : i \in {j \in DOMAIN kg_graph.nodes :
     /\ kg_graph.nodes[j].type = "minor_point"
     /\ kg_graph.nodes[j].name # kp
     /\ \E major \in DerivedMajors :
          /\ HasEdge(kg_graph, kp, major)
          /\ HasEdge(kg_graph, kg_graph.nodes[j].name, major)}}
ExpectedRelated(kp) ==
  IF op.mastery < RAG_LOW_MASTERY THEN PrerequisiteSources(kp)
  ELSE IF op.mastery > RAG_HIGH_MASTERY THEN LeadsToTargets(kp)
  ELSE SiblingTopics(kp)
CandidateSet == {op.candidates[i] : i \in DOMAIN op.candidates}

\* C34: retrieve takes the questions of related topics only when it found
\* fewer than 5 unused direct candidates; the related topics are the sources
\* of prerequisite edges into the target below mastery 0.4, the targets of
\* leads_to edges out of it above 0.7, its siblings under the major topic
\* otherwise, 0.4 and 0.7 included; no more than 3 of them are consulted.
C34_ExpansionByMastery ==
  (op.name = "search" /\ HasNode(kg_graph, NodeName("KP_Minor", op.target))) =>
    LET target_kp == NodeName("KP_Minor", op.target)
        direct == UnusedQuestionsOf(target_kp)
        related == ExpectedRelated(target_kp)
    IN IF Cardinality(direct) >= RAG_ENOUGH_DIRECT
       THEN CandidateSet = direct
       ELSE \E consulted \in SUBSET related :
              /\ Cardinality(consulted) <= RAG_MAX_RELATED
              /\ Cardinality(consulted) = RAG_MAX_RELATED \/ consulted = related
              /\ CandidateSet = direct \cup UNION {UnusedQuestionsOf(kp) : kp \in consulted}

\* Mastery exactly 0.4 on the graph where m1/t1 has four siblings and four
\* prerequisites: the one direct candidate and the questions of the first
\* three siblings, of which m1/t2 is not among the first three prerequisites.
C34_Witness ==
  /\ op.name = "search"
  /\ op.target = "m1/t1"
  /\ op.mastery = RAG_LOW_MASTERY
  /\ op.used = {}
  /\ Cardinality(SiblingTopics(NodeName("KP_Minor", "m1/t1"))) = 4
  /\ Cardinality(PrerequisiteSources(NodeName("KP_Minor", "m1/t1"))) = 4
  /\ CandidateSet = {NodeName("Q", "1"), NodeName("Q", "2"), NodeName("Q", "3"),
                      NodeName("Q", "4")}

\* ------------------------------------------- the question store
\* question_db.py. question_db is self.questions, db_file the JSON file at
\* db_path. A question is inserted without a 题号.

MaxStore == 3

DbDifficulties == {"medium"}
DbKnowledgePoints == {"kp1", "kp2"}
DbIds == 1..(MaxStore + 1)

\* save_database: json.dump of the list; an exception is logged and raised
\* again, before the file is opened or after it was opened for writing.
SaveDatabase(questions, file, io) ==
  CASE io = "ok" -> [truncated |-> FALSE, data |-> questions]
    [] io = "partial" -> [truncated |-> TRUE, data |-> <<>>]
    [] OTHER -> file

\* load_database of an existing file: the list in it, the empty list when
\* json.load raises.
LoadDatabase(file) == IF file.truncated THEN <<>> ELSE file.data

\* insert_question of a question without 题号: the number is the length of
\* the list plus one; the question is appended before the save, and an
\* exception of the save gives False.
InsertQuestion(difficulty, knowledge_point, io) ==
  /\ Len(question_db) < MaxStore
  /\ question_db' = Append(question_db, Q(Len(question_db) + 1, difficulty, knowledge_point))
  /\ db_file' = SaveDatabase(question_db', db_file, io)
  /\ op' = [name |-> "insert_question", id |-> Len(question_db) + 1, returned |-> io = "ok"]
  /\ UNCHANGED <<session, ui, state_stamps, storage_stamps, selVars, trackerVars,
                 concVars, kgVars>>

\* delete_question: the list without the questions of that 题号, saved when it
\* got shorter; an exception of the save leaves the call.
DeleteQuestion(question_id, io) ==
  LET Keeps(q) == q.id # question_id
      remaining == SelectSeq(question_db, Keeps)
  IN /\ question_db' = remaining
     /\ IF Len(remaining) < Len(question_db)
        THEN /\ db_file' = SaveDatabase(remaining, db_file, io)
             /\ op' = [name |-> "delete_question", id |-> question_id,
                       outcome |-> IF io = "ok" THEN "true" ELSE "raised"]
        ELSE /\ io = "ok"
             /\ UNCHANGED db_file
             /\ op' = [name |-> "delete_question", id |-> question_id, outcome |-> "false"]
     /\ UNCHANGED <<session, ui, state_stamps, storage_stamps, selVars, trackerVars,
                    concVars, kgVars>>

\* QuestionDatabase.__init__ in a new process.
DbReopen ==
  /\ question_db # LoadDatabase(db_file)
  /\ question_db' = LoadDatabase(db_file)
  /\ op' = [name |-> "load_database"]
  /\ UNCHANGED <<db_file, session, ui, state_stamps, storage_stamps, selVars, trackerVars,
                 concVars, kgVars>>

DbInit ==
  /\ SelIdle
  /\ TrackerIdle
  /\ SessionIdle
  /\ ConcIdle
  /\ KgIdle
  /\ StoreIdle
  /\ op = NoOp

DbNext ==
  \/ \E difficulty \in DbDifficulties, knowledge_point \in DbKnowledgePoints,
        io \in SaveOutcomes : InsertQuestion(difficulty, knowledge_point, io)
  \/ \E question_id \in DbIds, io \in SaveOutcomes : DeleteQuestion(question_id, io)
  \/ DbReopen

SpecDb == DbInit /\ [][DbNext]_vars

\* C40: after insert_question calls without a 题号 and delete_question calls
\* the stored questions have pairwise distinct identifiers, and so have the
\* questions of the pool of every knowledge point.
C40_StoredIdsDistinct ==
  /\ \A i \in DOMAIN question_db : \A j \in DOMAIN question_db :
       i # j => question_db[i].id # question_db[j].id
  /\ \A knowledge_point \in DbKnowledgePoints :
       LET pool == GetQuestionsFiltered(question_db, knowledge_point)
       IN \A i \in DOMAIN pool : \A j \in DOMAIN pool : i # j => pool[i].id # pool[j].id

\* ------------------------------------------- the timestamps of the states
\* bkt_algorithm.py. created_at and updated_at of every StudentState, in
\* memory (state_stamps) and in the store file (storage_stamps), by the pair
\* <<student_id, knowledge_point>>. A time is the reading of datetime.now()
\* during a call; NoTime is the empty string.

MaxTime == 3

NoTime == 0
Times == 1..MaxTime

\* StudentState.__post_init__: created_at is set when it is empty, updated_at
\* always.
PostInit(created_at, updated_at, now) ==
  [created_at |-> IF created_at = NoTime THEN now ELSE created_at, updated_at |-> now]

PutStamp(stamps, student_id, knowledge_point, stamp) ==
  [k \in DOMAIN stamps \cup {<<student_id, knowledge_point>>} |->
     IF k = <<student_id, knowledge_point>> THEN stamp ELSE stamps[k]]

\* get_student_state: initialize_student makes a StudentState without
\* timestamps when the pair has no state.
StampsAfterGet(stamps, states, student_id, knowledge_point, now) ==
  IF HasState(states, student_id, knowledge_point) THEN stamps
  ELSE PutStamp(stamps, student_id, knowledge_point, PostInit(NoTime, NoTime, now))

\* The created_at and updated_at entries that _save_states writes.
SaveStamps(stamps, disk_stamps, io) ==
  CASE io = "ok" -> stamps
    [] io = "open_fails" -> disk_stamps
    [] OTHER -> <<>>

\* _load_states: every state is made by StudentState(..., created_at=...,
\* updated_at=...), which runs __post_init__.
LoadStamps(disk_stamps, now) ==
  [k \in DOMAIN disk_stamps |->
     PostInit(disk_stamps[k].created_at, disk_stamps[k].updated_at, now)]

\* The latest time in a record of timestamps; the clock has passed it.
LatestOf(stamps) ==
  LET all == {stamps[k].created_at : k \in DOMAIN stamps}
               \cup {stamps[k].updated_at : k \in DOMAIN stamps} \cup {NoTime}
  IN CHOOSE t \in all : \A u \in all : u <= t
Later(now) == now > LatestOf(state_stamps) /\ now > LatestOf(storage_stamps)

StampGetStudentState(student_id, knowledge_point, io, now) ==
  LET got == GetStudentState(student_states, storage, student_id, knowledge_point, io)
      created == ~HasState(student_states, student_id, knowledge_point)
      stamps == StampsAfterGet(state_stamps, student_states, student_id, knowledge_point, now)
  IN /\ Later(now)
     /\ created
     /\ student_states' = got.states
     /\ storage' = got.storage
     /\ state_stamps' = stamps
     /\ storage_stamps' = SaveStamps(stamps, storage_stamps, io)
     /\ bkt_return' = NoReturn
     /\ op' = [name |-> "get_student_state", sid |-> student_id, kp |-> knowledge_point,
               io |-> io, now |-> now]
     /\ UNCHANGED <<restarts, db_file, selVars, sessionVars, concVars, kgVars>>

StampRecordAnswer(student_id, knowledge_point, question, is_correct, io1, io2, now) ==
  LET r == RecordAnswer(student_states, storage, student_id, knowledge_point,
                        question, is_correct, io1, io2)
      created == ~HasState(student_states, student_id, knowledge_point)
      got == StampsAfterGet(state_stamps, student_states, student_id, knowledge_point, now)
      flushed == IF created THEN SaveStamps(got, storage_stamps, io1) ELSE storage_stamps
      updated == [got EXCEPT ![<<student_id, knowledge_point>>].updated_at = now]
  IN /\ Later(now)
     /\ TotalAnswers(student_states) < MaxAnswers
     /\ ~created => io1 = "ok"
     /\ student_states' = r.states
     /\ storage' = r.storage
     /\ state_stamps' = updated
     /\ storage_stamps' = SaveStamps(updated, flushed, io2)
     /\ bkt_return' = [raised |-> r.raised, result |-> r.result]
     /\ op' = [name |-> "record_answer", sid |-> student_id, kp |-> knowledge_point,
               is_correct |-> is_correct, io |-> io2, now |-> now]
     /\ UNCHANGED <<restarts, db_file, selVars, sessionVars, concVars, kgVars>>

\* BayesianKnowledgeTracing.__init__ of a new process at a later time.
StampRestart(now) ==
  /\ Later(now)
  /\ restarts < MaxRestarts
  /\ restarts' = restarts + 1
  /\ student_states' = LoadStates(storage)
  /\ state_stamps' = LoadStamps(storage_stamps, now)
  /\ bkt_return' = NoReturn
  /\ op' = [name |-> "load", now |-> now]
  /\ UNCHANGED <<storage, storage_stamps, db_file, selVars, sessionVars, concVars, kgVars>>

StampInit ==
  /\ SelIdle
  /\ TrackerIdle
  /\ SessionIdle
  /\ ConcIdle
  /\ KgIdle
  /\ StoreIdle
  /\ op = NoOp

StampNext ==
  \/ \E sid \in Students, kp \in KnowledgePoints, io \in IoOutcomes, now \in Times :
       StampGetStudentState(sid, kp, io, now)
  \/ \E sid \in Students, kp \in KnowledgePoints, q \in TrackerQuestions,
        c \in BOOLEAN, io1 \in IoOutcomes, io2 \in IoOutcomes, now \in Times :
       StampRecordAnswer(sid, kp, q, c, io1, io2, now)
  \/ \E now \in Times : StampRestart(now)

SpecStamp == StampInit /\ [][StampNext]_vars

\* C39: after a save and a load into a new tracker every state has the
\* mastery, history, recent performance, parameters, created_at and
\* updated_at that the store file holds for it.
C39_RoundTripKeepsState ==
  op.name = "load" =>
    \A i \in DOMAIN storage.data :
      /\ HasState(student_states, storage.data[i].sid, storage.data[i].kp)
      /\ StateDict(StateOf(student_states, storage.data[i].sid, storage.data[i].kp))
           = storage.data[i].dict
      /\ <<storage.data[i].sid, storage.data[i].kp>> \in DOMAIN state_stamps
      /\ state_stamps[<<storage.data[i].sid, storage.data[i].kp>>]
           = storage_stamps[<<storage.data[i].sid, storage.data[i].kp>>]
====
